---- MODULE Spec2Model ----
(***************************************************************************)
(* Model of the e-paper calendar: the display controller                   *)
(* (display_controller.py), the main loop that drives it (main.py) and the *)
(* authentication message of the schedule collaborator                     *)
(* (google_service.py).  The hardware driver is opaque: every driver       *)
(* operation either succeeds with its documented effect or raises.         *)
(***************************************************************************)
EXTENDS Integers, Sequences, FiniteSets, TLC

\* ------------------------------------------------------------------------
\* Bounds of the model
MaxHandles == 2    \* hardware handles that can be constructed in one run
MaxDay     == 1    \* the run starts on day 0 and the clock reaches day MaxDay
MaxPage    == 1    \* cycles are started while page_index < MaxPage
MaxItems   == 7    \* items in the list that is paginated
MaxPerPage == 3    \* page sizes 1..MaxPerPage
MaxReq     == 8    \* requested page indices -MaxReq..MaxReq
MaxImages  == 4    \* Image objects created in one run of the renderer
MaxLen     == 4    \* glyphs of a text to truncate
MaxWidth   == 9    \* largest max_width asked of the truncation
MaxFetched == 3    \* items fetched from the calendars and task lists
MaxTime    == 1    \* time labels "00:00" .. of the timed items
MaxTitle   == 2    \* titles of the items
MaxEpdHeight == 122  \* config.EPD_HEIGHT (default 122)
MaxMargin  == 3    \* config.MARGIN (default 3)

\* Program constants
max_errors == 5    \* main.py: consecutive failures before the recovery

None    == 0
Handles == 1..MaxHandles
Days    == 0..MaxDay

NoFrame == [kind |-> "none", day |-> 0]
Frame(k, d) == [kind |-> k, day |-> d]

\* ------------------------------------------------------------------------
\* The opaque driver: state of one hardware handle and effect of one
\* successful operation on it.
FreshHandle == [st |-> "unbuilt", full |-> FALSE, mode |-> "NONE",
                asleep |-> FALSE, base |-> NoFrame, shown |-> NoFrame]

\* A handle the last reference to which was dropped (`self._epd = None`):
\* its driver object is gone.  Whether it was shut down first is in the
\* operations the dropping call issued.
Gone == [FreshHandle EXCEPT !.st = "gone"]

ApplyOp(r, op, fr) ==
  CASE op = "EPD"            -> [r EXCEPT !.st = "live"]
    [] op = "getbuffer"      -> r
    [] op = "init_full"      -> [r EXCEPT !.mode = "FULL", !.asleep = FALSE]
    [] op = "init_part"      -> [r EXCEPT !.mode = "PART", !.asleep = FALSE]
    [] op = "Clear"          -> [r EXCEPT !.shown = NoFrame]
    [] op = "display"        -> [r EXCEPT !.shown = fr,
                                          !.full = r.full \/ r.mode = "FULL"]
    [] op = "displayPartBaseImage" -> [r EXCEPT !.base = fr, !.shown = fr]
    [] op = "displayPartial" -> [r EXCEPT !.shown = fr]
    [] op = "sleep"          -> [r EXCEPT !.asleep = TRUE]
    [] op = "module_exit"    -> [r EXCEPT !.st = "shut"]
    [] OTHER                 -> r

Op(o, h, ok) == [op |-> o, h |-> h, ok |-> ok]

\* Runs the operations os[1..] on handle h in order; operation number failAt
\* raises (and has no effect), the ones before it succeed, the ones after it
\* are not issued.  failAt = 0: none raises.
RECURSIVE RunOps(_, _, _, _, _, _, _)
RunOps(r, h, os, fr, i, failAt, log) ==
  IF i > Len(os) THEN [r |-> r, log |-> log, raised |-> FALSE]
  ELSE IF i = failAt
       THEN [r |-> r, log |-> Append(log, Op(os[i], h, FALSE)), raised |-> TRUE]
       ELSE RunOps(ApplyOp(r, os[i], fr), h, os, fr, i + 1, failAt,
                   Append(log, Op(os[i], h, TRUE)))

\* ------------------------------------------------------------------------
\* DisplayController (display_controller.py)

\* DisplayController.__init__
NewController == [epd |-> None, init |-> FALSE]

FullOps    == <<"getbuffer", "init_full", "Clear", "display">>

\* Mutant of PartialOps: init(PART_UPDATE) is missing.
PartialOps_NoInit == <<"getbuffer", "displayPartBaseImage", "displayPartial">>

PartialOps == <<"getbuffer", "displayPartBaseImage", "init_part", "displayPartial">>

\* Mutant of InitializeDisplay: the test `self._epd is None` is missing, a
\* handle is constructed whenever the controller is not initialised.
InitializeDisplay_NoHeldCheck(c, H, n, acqOk) ==
  IF c.init THEN [c |-> c, H |-> H, n |-> n, raised |-> FALSE, acq |-> "none"]
  ELSE IF acqOk /\ n <= MaxHandles
       THEN [c |-> [epd |-> n, init |-> TRUE],
             H |-> [H EXCEPT ![n] = [H[n] EXCEPT !.st = "live"]],
             n |-> n + 1, raised |-> FALSE, acq |-> "ok"]
       ELSE [c |-> c, H |-> H, n |-> n, raised |-> TRUE, acq |-> "fail"]

\* DisplayController._initialize_display: returns at once when initialised;
\* constructs a handle only when none is held; acqOk = FALSE is the import
\* or the constructor raising.
InitializeDisplay(c, H, n, acqOk) ==
  IF c.init THEN [c |-> c, H |-> H, n |-> n, raised |-> FALSE, acq |-> "none"]
  ELSE IF c.epd = None
       THEN IF acqOk /\ n <= MaxHandles
            THEN [c |-> [epd |-> n, init |-> TRUE],
                  H |-> [H EXCEPT ![n] = ApplyOp(H[n], "EPD", NoFrame)],
                  n |-> n + 1, raised |-> FALSE, acq |-> "ok"]
            ELSE [c |-> c, H |-> H, n |-> n, raised |-> TRUE, acq |-> "fail"]
       ELSE [c |-> [c EXCEPT !.init = TRUE], H |-> H, n |-> n,
             raised |-> FALSE, acq |-> "none"]

\* Mutant of OnShowError: the except clause also drops the handle.
OnShowError_Reset(c) == [epd |-> None, init |-> FALSE]

\* What show_image does when one of its statements raises: the except
\* clause clears _initialized and re-raises; the handle is kept.
OnShowError(c) == [c EXCEPT !.init = FALSE]

\* DisplayController.show_image(image, full_update).  f = 0: nothing raises;
\* f = 1: the acquisition raises; f = k + 1: the k-th driver operation raises.
ShowImage(c, H, n, fr, full, f) ==
  LET a  == InitializeDisplay(c, H, n, f # 1)
      os == IF full THEN FullOps ELSE PartialOps
  IN IF a.raised
     THEN [c |-> OnShowError(a.c), H |-> a.H, n |-> a.n, ops |-> <<>>,
           raised |-> TRUE, acq |-> a.acq]
     ELSE LET h == a.c.epd
              r == RunOps(a.H[h], h, os, fr, 1, IF f = 0 THEN 0 ELSE f - 1, <<>>)
          IN [c |-> IF r.raised THEN OnShowError(a.c) ELSE a.c,
              H |-> [a.H EXCEPT ![h] = r.r], n |-> a.n, ops |-> r.log,
              raised |-> r.raised, acq |-> a.acq]

\* show_image left after its first k driver operations because the signal
\* handler raised SystemExit there: no except clause of show_image runs.
ShowImagePrefix(c, H, n, fr, full, k) ==
  LET a  == InitializeDisplay(c, H, n, TRUE)
      os == SubSeq(IF full THEN FullOps ELSE PartialOps, 1, k)
  IN IF a.raised
     THEN [c |-> a.c, H |-> a.H, n |-> a.n]
     ELSE LET h == a.c.epd
              r == RunOps(a.H[h], h, os, fr, 1, 0, <<>>)
          IN [c |-> a.c, H |-> [a.H EXCEPT ![h] = r.r], n |-> a.n]

\* The failure points show_image can have on controller c: the acquisition
\* can raise only when it is attempted, and it does raise when the model has
\* no handle left to construct.
FailPoints(c, n) ==
  LET acquires == ~c.init /\ c.epd = None
  IN IF acquires /\ n > MaxHandles THEN {1}
     ELSE IF acquires THEN 0..5 ELSE {0} \cup (2..5)

\* The guard of cleanup: sleep and module_exit run only on a held handle of
\* an initialised controller.  The except clauses of cleanup swallow what
\* sleep (except Exception) and module_exit (bare except) raise.
CleanupShutsDown(c) == c.epd # None /\ c.init

\* DisplayController.cleanup.  cf = "sleep": sleep() raises (module_exit is
\* then skipped); cf = "exit": module_exit() raises (swallowed); "none":
\* neither raises.  The finally clause always drops the handle.
\* Mutant of CleanupSwallows: only the inner except clause exists.
CleanupSwallows_ExitOnly(op) == op = "module_exit"

CleanupSwallows(op) == op \in {"sleep", "module_exit"}

\* Mutant of Cleanup: the finally clause drops the handle and leaves
\* _initialized as it was.
Cleanup_KeepInit(c, H, cf) ==
  LET h  == c.epd
      os == IF CleanupShutsDown(c) THEN <<"sleep", "module_exit">> ELSE <<>>
      fa == IF cf = "sleep" THEN 1 ELSE IF cf = "exit" THEN 2 ELSE 0
      r  == IF os = <<>> THEN [r |-> FreshHandle, log |-> <<>>, raised |-> FALSE]
            ELSE RunOps(H[h], h, os, NoFrame, 1, fa, <<>>)
      H1 == IF os = <<>> THEN H ELSE [H EXCEPT ![h] = r.r]
      H2 == IF h # None THEN [H1 EXCEPT ![h] = Gone] ELSE H1
  IN [c |-> [epd |-> None, init |-> c.init], H |-> H2, ops |-> r.log,
      raised |-> r.raised /\ ~CleanupSwallows(r.log[Len(r.log)].op)]

Cleanup(c, H, cf) ==
  LET h  == c.epd
      os == IF CleanupShutsDown(c) THEN <<"sleep", "module_exit">> ELSE <<>>
      fa == IF cf = "sleep" THEN 1 ELSE IF cf = "exit" THEN 2 ELSE 0
      r  == IF os = <<>> THEN [r |-> FreshHandle, log |-> <<>>, raised |-> FALSE]
            ELSE RunOps(H[h], h, os, NoFrame, 1, fa, <<>>)
      H1 == IF os = <<>> THEN H ELSE [H EXCEPT ![h] = r.r]
      H2 == IF h # None THEN [H1 EXCEPT ![h] = Gone] ELSE H1
  IN [c |-> [epd |-> None, init |-> FALSE], H |-> H2, ops |-> r.log,
      raised |-> r.raised /\ ~CleanupSwallows(r.log[Len(r.log)].op)]

CleanupFaults(c) == IF CleanupShutsDown(c) THEN {"none", "sleep", "exit"} ELSE {"none"}

\* Mutant of ControllerSleep: the except clause is missing, what the
\* driver raises reaches the caller.
ControllerSleep_NoExcept(c, H, fail) ==
  LET h == c.epd
      r == IF c.epd # None /\ c.init
           THEN RunOps(H[h], h, <<"sleep">>, NoFrame, 1, IF fail THEN 1 ELSE 0, <<>>)
           ELSE [r |-> FreshHandle, log |-> <<>>, raised |-> FALSE]
  IN [c |-> c, H |-> IF r.log = <<>> THEN H ELSE [H EXCEPT ![h] = r.r],
      ops |-> r.log, raised |-> r.raised]

\* DisplayController.sleep: the driver's sleep on a held handle of an
\* initialised controller; the except clause logs what it raises.  No
\* attribute of the controller is assigned.
ControllerSleep(c, H, fail) ==
  LET h == c.epd
      r == IF c.epd # None /\ c.init
           THEN RunOps(H[h], h, <<"sleep">>, NoFrame, 1, IF fail THEN 1 ELSE 0, <<>>)
           ELSE [r |-> FreshHandle, log |-> <<>>, raised |-> FALSE]
  IN [c |-> c, H |-> IF r.log = <<>> THEN H ELSE [H EXCEPT ![h] = r.r],
      ops |-> r.log, raised |-> FALSE]

SleepFaults(c) == IF c.epd # None /\ c.init THEN BOOLEAN ELSE {FALSE}

\* The record of a controller call: the method, the controller ("main" is
\* the one bound to `display`, "aux" the one of _show_auth_message), the
\* controller before and after, the driver operations issued, whether the
\* call raised, and what became of the handle acquisition.
Call(fn, who, pre, post, ops, raised, acq) ==
  [fn |-> fn, ctl |-> who, pre |-> pre, post |-> post, ops |-> ops,
   raised |-> raised, acq |-> acq]

NoCall == Call("none", "main", NewController, NewController, <<>>, FALSE, "none")

\* ------------------------------------------------------------------------
\* EPaper (e-paper2.py).  F is the set of driver operations that raise
\* during the call.

NoEPaper == [epd |-> None, ready |-> FALSE]

Step0(r) == [r |-> r, log |-> <<>>, raised |-> FALSE]

\* One driver call inside a method: skipped once something has raised.
Try(s, h, op, fr, F) ==
  IF s.raised THEN s
  ELSE IF op \in F
       THEN [r |-> s.r, log |-> Append(s.log, Op(op, h, FALSE)), raised |-> TRUE]
       ELSE [r |-> ApplyOp(s.r, op, fr), log |-> Append(s.log, Op(op, h, TRUE)),
             raised |-> FALSE]

\* An except clause that swallows what was raised.
Swallow(s) == [s EXCEPT !.raised = FALSE]

\* EPaper.full_update: init(FULL), Clear, display(getbuffer(img)), then
\* _partial_ready = False.
EPFullUpdate(e, s, fr, F) ==
  LET h  == e.epd
      s1 == Try(Try(Try(Try(s, h, "init_full", fr, F), h, "Clear", fr, F),
                    h, "getbuffer", fr, F), h, "display", fr, F)
  IN [e |-> IF s1.raised THEN e ELSE [e EXCEPT !.ready = FALSE], s |-> s1]

\* The try block of prepare_partial (lines 481-485).
EPSetBase(s, h, fr, F) ==
  Swallow(Try(Try(s, h, "getbuffer", fr, F), h, "displayPartBaseImage", fr, F))

\* EPaper.prepare_partial: init(PART) may raise; a raise of the base image
\* registration is swallowed; then _partial_ready = True.
EPPreparePartial(e, s, fr, F) ==
  LET h  == e.epd
      s1 == Try(s, h, "init_part", fr, F)
  IN IF s1.raised THEN [e |-> e, s |-> s1]
     ELSE [e |-> [e EXCEPT !.ready = TRUE], s |-> EPSetBase(s1, h, fr, F)]

\* The push of partial_update (lines 493-499): displayPartial, and display
\* when that raises.
EPPush(s, h, fr, F) ==
  LET s1 == Try(Try(s, h, "getbuffer", fr, F), h, "displayPartial", fr, F)
  IN IF s1.raised
     THEN Try(Try(Swallow(s1), h, "getbuffer", fr, F), h, "display", fr, F)
     ELSE s1

\* Mutant of EPPartialUpdate: the test of _partial_ready is missing, the
\* frame is pushed without preparation.
EPPartialUpdate_NoPrepare(e, s, fr, F) ==
  [e |-> e, s |-> EPPush(s, e.epd, fr, F)]

\* EPaper.partial_update: prepares with the incoming frame when not
\* prepared, then pushes.
EPPartialUpdate(e, s, fr, F) ==
  LET p == IF e.ready THEN [e |-> e, s |-> s] ELSE EPPreparePartial(e, s, fr, F)
  IN IF p.s.raised THEN p
     ELSE [e |-> p.e, s |-> EPPush(p.s, e.epd, fr, F)]

\* EPaper.sleep: whatever the driver raises is swallowed.
EPSleep(e, s, F) == [e |-> e, s |-> Swallow(Try(s, e.epd, "sleep", NoFrame, F))]

\* The driver operations each method issues, any of which may raise.
FullFaults    == SUBSET {"init_full", "Clear", "getbuffer", "display"}
PrepareFaults == SUBSET {"init_part", "getbuffer", "displayPartBaseImage"}
PartialFaults == SUBSET {"init_part", "getbuffer", "displayPartBaseImage",
                         "displayPartial", "display"}

\* ------------------------------------------------------------------------
\* The program state (main.py, google_service.py)
VARIABLES
  pc,           \* position of main()
  ctx,          \* which render is running: "initial" (line 69) or "loop" (line 97)
  stage,        \* which Google service the render is obtaining: "cal", "tasks"
  dry_run,      \* args.dry_run is set
  display,      \* the controller bound to the global `display`
  aux,          \* the controller local to _show_auth_message, with flag `on`
  hw,           \* the driver's state of every handle
  nh,           \* next handle the driver constructs
  gs,           \* GoogleService: which service objects are built
  clock,        \* the wall-clock date
  nowRead,      \* `now.date()` read at the top of the cycle
  today,        \* the date recorded for the static frame
  base_img,     \* the static frame
  img,          \* the dynamic frame
  png,          \* what was written to the PNG path
  page_index,
  error_count,
  exitBy,       \* how main() ended: "none", "return0", "return1", "signal",
                \* and for e-paper2.py "raise" and "interrupt"
  ep,           \* e-paper2.py: the EPaper object `ep` (handle, _partial_ready)
  lastCall,     \* the controller method called by the latest step, if any
  shown_static  \* history: the static frame main() last showed by a full
                \* update that did not raise

\* The calendar of the run, and the state of the library functions that
\* are checked on their own (rendering, pagination, truncation).
VARIABLES
  monthStart,   \* the day of the model whose day of month is 1
  items,        \* render_dynamic: the item list that was fetched
  per_page,     \* render_dynamic: EVENTS_PER_PAGE / PAGE_SIZE
  req_index,    \* render_dynamic: the page_index argument
  rendered,     \* render_dynamic: what it computed and drew
  text,         \* _truncate_text: the text, a sequence of glyphs
  max_width,    \* _truncate_text: the max_width argument
  result,       \* _truncate_text: the string returned
  images,       \* the Image objects that exist, by reference
  base_ref,     \* the reference held in base_img
  frame_ref,    \* the reference the latest render_dynamic returned
  static_px,    \* the pixels render_static returned for base_ref
  calendar,     \* _draw_month_calendar: the date given and the grid drawn
  sched,        \* get_events_and_tasks: the items fetched and returned
  panel,        \* _draw_events: the page given and the items drawn
  shown_pages   \* history: the pages the successful cycles have shown since
                \* the page index was last set to 0

libVars == <<items, per_page, req_index, rendered, text, max_width, result,
             images, base_ref, frame_ref, static_px, calendar, sched, panel,
             shown_pages>>

progVars == <<pc, ctx, stage, dry_run, display, aux, hw, nh, gs, clock,
              nowRead, today, base_img, img, png, page_index, error_count,
              exitBy, ep, lastCall, shown_static>>

vars == <<progVars, monthStart, libVars>>

\* Image.new("1", (EPD_WIDTH, EPD_HEIGHT), 255): an all-white image, by its
\* three regions (month calendar, time block, events panel).
Blank == [cal |-> "blank", time |-> "blank", events |-> "blank"]

\* No render_dynamic call was made.
NoOut == [total_pages |-> 0, page_index |-> 0, show_items |-> <<>>,
          title |-> "", count |-> <<>>, free_day |-> FALSE, drawn |-> <<>>]

\* The library functions are not in use.
LibIdle ==
  /\ items = <<>>
  /\ per_page = 1
  /\ req_index = 0
  /\ rendered = NoOut
  /\ text = <<>>
  /\ max_width = 0
  /\ result = <<>>
  /\ images = <<>>
  /\ base_ref = 0
  /\ frame_ref = 0
  /\ static_px = Blank
  /\ calendar = <<>>
  /\ sched = <<>>
  /\ panel = <<>>
  /\ shown_pages = <<>>

NoAux == [on |-> FALSE, epd |-> None, init |-> FALSE]
AuxCtl == [epd |-> aux.epd, init |-> aux.init]

\* main.py lines 57-62: the components are created; the flag is an input.
Init ==
  /\ pc = "start"
  /\ ctx = "initial"
  /\ stage = "cal"
  /\ dry_run \in BOOLEAN
  /\ display = NewController
  /\ aux = NoAux
  /\ hw = [h \in Handles |-> FreshHandle]
  /\ nh = 1
  /\ gs = [cal |-> FALSE, tasks |-> FALSE]
  /\ clock = 0
  /\ nowRead = clock
  /\ today = clock
  /\ base_img = NoFrame
  /\ img = NoFrame
  /\ png = NoFrame
  /\ page_index = 0
  /\ error_count = 0
  /\ exitBy = "none"
  /\ ep = NoEPaper
  /\ lastCall = NoCall
  /\ shown_static = NoFrame
  /\ monthStart = 1
  /\ LibIdle

Running == pc \notin {"final", "unwind", "done", "e_final", "e_done", "client",
                      "ctl", "render", "trunc", "frames", "grid", "sched",
                      "panel", "pager"}

\* The except clause of the main loop (lines 112-128): the counter and the
\* position it leads to.  "loop_top" is the time.sleep that ends a cycle
\* (lines 106 and 128) together with the top of the next one.
ExceptCount == error_count + 1

\* Mutant of ExceptPc: the test is error_count > max_errors.
ExceptPc_Late == IF ExceptCount > max_errors THEN "recover" ELSE "loop_top"

ExceptPc == IF ExceptCount >= max_errors THEN "recover" ELSE "loop_top"

\* The date moves on.  It can do so at any time; the program sees it only
\* when it reads the clock (main.py lines 86 and 91, e-paper2.py lines 539,
\* 544 and 547), so the step is taken right before those reads.
ClockReadPcs == {"loop_top", "day_static", "e_prepare", "e_top", "e_day_full"}

Midnight ==
  /\ pc \in ClockReadPcs
  /\ clock < MaxDay
  /\ clock' = clock + 1
  /\ lastCall' = NoCall
  /\ UNCHANGED <<pc, ctx, stage, dry_run, display, aux, hw, nh, gs, nowRead,
                 today, base_img, img, png, page_index, error_count, exitBy, ep>>
  /\ UNCHANGED <<monthStart, libVars, shown_static>>

\* main.py lines 67-68: today and the first static frame.  A raise of
\* render_static is the critical error of line 130.
Start ==
  /\ pc = "start"
  /\ today' = clock
  /\ \E ok \in BOOLEAN :
       IF ok THEN /\ base_img' = Frame("static", clock)
                  /\ pc' = "g_service"
                  /\ exitBy' = exitBy
             ELSE /\ base_img' = base_img
                  /\ pc' = "final"
                  /\ exitBy' = "return1"
  /\ ctx' = "initial"
  /\ stage' = "cal"
  /\ lastCall' = NoCall
  /\ UNCHANGED <<dry_run, display, aux, hw, nh, gs, clock, nowRead, img, png,
                 page_index, error_count, ep>>
  /\ UNCHANGED <<monthStart, libVars, shown_static>>

NextStage == IF stage = "cal" THEN "tasks" ELSE "cal"

\* image_renderer.py render_dynamic lines 266-302 after the items were
\* fetched: the dynamic frame is a copy of the static frame.  A raise is
\* the critical error (line 130) in the initial render and a failed cycle
\* (line 112) in the loop.
Draw(ok) ==
  IF ok
  THEN /\ img' = Frame("dynamic", base_img.day)
       /\ pc' = IF ctx = "loop" THEN "partial"
                ELSE IF dry_run THEN "dry_save" ELSE "first_full"
       /\ UNCHANGED <<error_count, exitBy>>
  ELSE /\ img' = img
       /\ IF ctx = "loop"
          THEN /\ error_count' = ExceptCount
               /\ pc' = ExceptPc
               /\ exitBy' = exitBy
          ELSE /\ error_count' = error_count
               /\ pc' = "final"
               /\ exitBy' = "return1"

\* get_events_and_tasks is done with one service: the tasks service comes
\* after the calendar service, the drawing after the tasks service.
StageDone ==
  /\ stage' = NextStage
  /\ IF stage = "cal"
     THEN /\ pc' = "g_service"
          /\ UNCHANGED <<img, error_count, exitBy>>
     ELSE \E ok \in BOOLEAN : Draw(ok)

\* google_service.py _get_calendar_service / _get_tasks_service inside
\* get_events_and_tasks (lines 206-281): a built service is reused; else
\* get_credentials either yields credentials without the display ("ok"),
\* raises ("fail", swallowed at lines 251/280), or has to authenticate
\* ("auth", line 142).
GetService ==
  /\ pc = "g_service"
  /\ IF gs[stage]
     THEN /\ gs' = gs /\ StageDone
     ELSE \E out \in {"ok", "fail", "auth"} :
            CASE out = "ok"   -> /\ gs' = [gs EXCEPT ![stage] = TRUE]
                                 /\ StageDone
              [] out = "fail" -> /\ gs' = gs
                                 /\ StageDone
              [] out = "auth" -> /\ gs' = gs
                                 /\ pc' = "auth_show" /\ stage' = stage
                                 /\ UNCHANGED <<img, error_count, exitBy>>
  /\ lastCall' = NoCall
  /\ UNCHANGED <<ctx, dry_run, display, aux, hw, nh, clock, nowRead, today,
                 base_img, png, page_index, ep>>
  /\ UNCHANGED <<monthStart, libVars, shown_static>>

AuthFrame == Frame("auth", 0)

\* google_service.py _show_auth_message lines 67-96: a controller of its own
\* shows the message with a full update; whatever it raises is swallowed
\* (line 99).
AuthShow ==
  /\ pc = "auth_show"
  /\ \E f \in FailPoints(NewController, nh) :
       LET res == ShowImage(NewController, hw, nh, AuthFrame, TRUE, f)
       IN /\ aux' = [on |-> TRUE, epd |-> res.c.epd, init |-> res.c.init]
          /\ hw' = res.H
          /\ nh' = res.n
          /\ lastCall' = Call("show_full", "aux", NewController, res.c,
                              res.ops, res.raised, res.acq)
  /\ pc' = "auth_release"
  /\ UNCHANGED <<ctx, stage, dry_run, display, gs, clock, nowRead, today,
                 base_img, img, png, page_index, error_count, exitBy, ep>>
  /\ UNCHANGED <<monthStart, libVars, shown_static>>

\* _show_auth_message lines 67-94 raising while the message is drawn: the
\* controller exists but show_image is never called.
AuthDrawFail ==
  /\ pc = "auth_show"
  /\ aux' = [on |-> TRUE, epd |-> None, init |-> FALSE]
  /\ pc' = "auth_release"
  /\ lastCall' = NoCall
  /\ UNCHANGED <<ctx, stage, dry_run, display, hw, nh, gs, clock, nowRead,
                 today, base_img, img, png, page_index, error_count, exitBy, ep>>
  /\ UNCHANGED <<monthStart, libVars, shown_static>>

\* _show_auth_message returns: its controller is released, __del__ calls
\* cleanup (display_controller.py lines 123-128).  Then the OAuth flow of
\* get_credentials (lines 144-175) succeeds or raises.
AuthRelease ==
  /\ pc = "auth_release"
  /\ \E cf \in CleanupFaults(AuxCtl) :
       LET res == Cleanup(AuxCtl, hw, cf)
       IN /\ hw' = res.H
          /\ lastCall' = Call("cleanup", "aux", AuxCtl, res.c, res.ops,
                              res.raised, "none")
  /\ aux' = NoAux
  /\ \E ok \in BOOLEAN : gs' = [gs EXCEPT ![stage] = ok]
  /\ StageDone
  /\ UNCHANGED <<ctx, dry_run, display, nh, clock, nowRead, today, base_img,
                 png, page_index, ep>>
  /\ UNCHANGED <<monthStart, libVars, shown_static>>

\* main.py lines 71-74
DrySave ==
  /\ pc = "dry_save"
  /\ png' = img
  /\ pc' = "final"
  /\ exitBy' = "return0"
  /\ lastCall' = NoCall
  /\ UNCHANGED <<ctx, stage, dry_run, display, aux, hw, nh, gs, clock,
                 nowRead, today, base_img, img, page_index, error_count, ep>>
  /\ UNCHANGED <<monthStart, libVars, shown_static>>

\* main.py lines 77-82: the first full update, outside the loop's try.
FirstFull ==
  /\ pc = "first_full"
  /\ \E f \in FailPoints(display, nh) :
       LET res == ShowImage(display, hw, nh, base_img, TRUE, f)
       IN /\ display' = res.c
          /\ hw' = res.H
          /\ nh' = res.n
          /\ lastCall' = Call("show_full", "main", display, res.c, res.ops,
                              res.raised, res.acq)
          /\ IF res.raised
             THEN /\ pc' = "final" /\ exitBy' = "return1"
             ELSE /\ pc' = "loop_top" /\ exitBy' = exitBy
          /\ shown_static' = IF res.raised THEN shown_static ELSE base_img
  /\ page_index' = 0
  /\ error_count' = 0
  /\ UNCHANGED <<ctx, stage, dry_run, aux, gs, clock, nowRead, today,
                 base_img, img, png, ep>>
  /\ UNCHANGED <<monthStart, libVars>>

\* main.py lines 106/128 and 86-89: the sleep that ends the previous cycle,
\* then the clock is read.
LoopTop ==
  /\ pc = "loop_top"
  /\ page_index < MaxPage
  /\ nowRead' = clock
  /\ pc' = IF clock # today THEN "day_static" ELSE "g_service"
  /\ ctx' = "loop"
  /\ stage' = "cal"
  /\ lastCall' = NoCall
  /\ UNCHANGED <<dry_run, display, aux, hw, nh, gs, clock, today, base_img,
                 img, png, page_index, error_count, exitBy, ep>>
  /\ UNCHANGED <<monthStart, libVars, shown_static>>

\* main.py lines 90-94: the static frame of the new day and its full update.
DayStaticRenderFail ==
  /\ pc = "day_static"
  /\ error_count' = ExceptCount
  /\ pc' = ExceptPc
  /\ lastCall' = NoCall
  /\ UNCHANGED <<ctx, stage, dry_run, display, aux, hw, nh, gs, clock,
                 nowRead, today, base_img, img, png, page_index, exitBy, ep>>
  /\ UNCHANGED <<monthStart, libVars, shown_static>>

\* Mutant of DayStatic: the date is recorded before the full update, so
\* also when it raises.
DayStatic_AdvanceOnFail ==
  /\ pc = "day_static"
  /\ base_img' = Frame("static", clock)
  /\ \E f \in FailPoints(display, nh) :
       LET res == ShowImage(display, hw, nh, base_img', TRUE, f)
       IN /\ display' = res.c
          /\ hw' = res.H
          /\ nh' = res.n
          /\ lastCall' = Call("show_full", "main", display, res.c, res.ops,
                              res.raised, res.acq)
          /\ IF res.raised
             THEN /\ error_count' = ExceptCount
                  /\ pc' = ExceptPc
                  /\ today' = nowRead
                  /\ UNCHANGED <<page_index, ep>>
             ELSE /\ error_count' = error_count
                  /\ pc' = "g_service"
                  /\ today' = nowRead
                  /\ page_index' = 0
          /\ shown_static' = IF res.raised THEN shown_static ELSE base_img'
  /\ UNCHANGED <<ctx, stage, dry_run, aux, gs, clock, nowRead, img, png,
                 exitBy, ep>>
  /\ UNCHANGED <<monthStart, libVars>>

DayStatic ==
  /\ pc = "day_static"
  /\ base_img' = Frame("static", clock)
  /\ \E f \in FailPoints(display, nh) :
       LET res == ShowImage(display, hw, nh, base_img', TRUE, f)
       IN /\ display' = res.c
          /\ hw' = res.H
          /\ nh' = res.n
          /\ lastCall' = Call("show_full", "main", display, res.c, res.ops,
                              res.raised, res.acq)
          /\ IF res.raised
             THEN /\ error_count' = ExceptCount
                  /\ pc' = ExceptPc
                  /\ UNCHANGED <<today, page_index, ep>>
             ELSE /\ error_count' = error_count
                  /\ pc' = "g_service"
                  /\ today' = nowRead
                  /\ page_index' = 0
          /\ shown_static' = IF res.raised THEN shown_static ELSE base_img'
  /\ UNCHANGED <<ctx, stage, dry_run, aux, gs, clock, nowRead, img, png,
                 exitBy, ep>>
  /\ UNCHANGED <<monthStart, libVars>>

\* main.py lines 98-106: the partial update of the dynamic frame.
Partial ==
  /\ pc = "partial"
  /\ \E f \in FailPoints(display, nh) :
       LET res == ShowImage(display, hw, nh, img, FALSE, f)
       IN /\ display' = res.c
          /\ hw' = res.H
          /\ nh' = res.n
          /\ lastCall' = Call("show_partial", "main", display, res.c, res.ops,
                              res.raised, res.acq)
          /\ IF res.raised
             THEN /\ error_count' = ExceptCount
                  /\ pc' = ExceptPc
                  /\ page_index' = page_index
             ELSE /\ error_count' = 0
                  /\ pc' = "loop_top"
                  /\ page_index' = page_index + 1
  /\ UNCHANGED <<ctx, stage, dry_run, aux, gs, clock, nowRead, today,
                 base_img, img, png, exitBy, ep>>
  /\ UNCHANGED <<monthStart, libVars, shown_static>>

\* main.py line 120
Recover ==
  /\ pc = "recover"
  /\ \E cf \in CleanupFaults(display) :
       LET res == Cleanup(display, hw, cf)
       IN /\ display' = res.c
          /\ hw' = res.H
          /\ lastCall' = Call("cleanup", "main", display, res.c, res.ops,
                              res.raised, "none")
  /\ pc' = "rebind"
  /\ UNCHANGED <<ctx, stage, dry_run, aux, nh, gs, clock, nowRead, today,
                 base_img, img, png, page_index, error_count, exitBy, ep>>
  /\ UNCHANGED <<monthStart, libVars, shown_static>>

\* main.py lines 121-123: a new controller is bound; the old one is
\* released and its __del__ calls cleanup once more.
Rebind ==
  /\ pc = "rebind"
  /\ LET res == Cleanup(display, hw, "none")
     IN /\ hw' = res.H
        /\ lastCall' = Call("cleanup", "main", display, res.c, res.ops,
                            res.raised, "none")
  /\ display' = NewController
  /\ error_count' = 0
  /\ pc' = "loop_top"
  /\ UNCHANGED <<ctx, stage, dry_run, aux, nh, gs, clock, nowRead, today,
                 base_img, img, png, page_index, exitBy, ep>>
  /\ UNCHANGED <<monthStart, libVars, shown_static>>

\* main.py lines 134-140: the finally clause.
Final ==
  /\ pc = "final"
  /\ \E cf \in CleanupFaults(display) :
       LET res == Cleanup(display, hw, cf)
       IN /\ display' = res.c
          /\ hw' = res.H
          /\ lastCall' = Call("cleanup", "main", display, res.c, res.ops,
                              res.raised, "none")
  /\ pc' = IF aux.on THEN "unwind" ELSE "done"
  /\ UNCHANGED <<ctx, stage, dry_run, aux, nh, gs, clock, nowRead, today,
                 base_img, img, png, page_index, error_count, exitBy, ep>>
  /\ UNCHANGED <<monthStart, libVars, shown_static>>

\* SystemExit leaves the frame of _show_auth_message: its controller is
\* released and __del__ calls cleanup.
Unwind ==
  /\ pc = "unwind"
  /\ \E cf \in CleanupFaults(AuxCtl) :
       LET res == Cleanup(AuxCtl, hw, cf)
       IN /\ hw' = res.H
          /\ lastCall' = Call("cleanup", "aux", AuxCtl, res.c, res.ops,
                              res.raised, "none")
  /\ aux' = NoAux
  /\ pc' = "done"
  /\ UNCHANGED <<ctx, stage, dry_run, display, nh, gs, clock, nowRead, today,
                 base_img, img, png, page_index, error_count, exitBy, ep>>
  /\ UNCHANGED <<monthStart, libVars, shown_static>>

\* sys.exit(0) in the signal handler (line 39) unwinds main() up to its
\* finally clause, which reads only the global `display`: the locals of
\* main() are not read again and end here.
LeaveMain ==
  /\ ctx' = "initial"
  /\ stage' = "cal"
  /\ nowRead' = 0
  /\ today' = 0
  /\ base_img' = NoFrame
  /\ img' = NoFrame
  /\ page_index' = 0
  /\ error_count' = 0
  /\ shown_static' = NoFrame

\* main.py signal_handler lines 25-39, delivered between two steps of
\* main(): cleanup of the current controller, then SystemExit, which only
\* the finally clause of main() handles.
Signal ==
  /\ Running
  /\ \E cf \in CleanupFaults(display) :
       LET res == Cleanup(display, hw, cf)
       IN /\ display' = res.c
          /\ hw' = res.H
          /\ lastCall' = Call("cleanup", "main", display, res.c, res.ops,
                              res.raised, "none")
  /\ pc' = "final"
  /\ exitBy' = "signal"
  /\ LeaveMain
  /\ UNCHANGED <<dry_run, aux, nh, gs, clock, png, ep>>
  /\ UNCHANGED <<monthStart, libVars>>

\* The signal delivered while show_image of the main controller is running,
\* after k of its driver operations: right after the acquisition (k = 0) or
\* before the last operation (k = 3).  The handler's cleanup drops the
\* handle, so the points in between lead to the same states as these two.
SignalInUpdate ==
  /\ pc \in {"first_full", "day_static", "partial"}
  /\ ~(~display.init /\ display.epd = None /\ nh > MaxHandles)
  /\ \E k \in {0, 3} :
       LET fr  == IF pc = "partial" THEN img
                  ELSE IF pc = "day_static" THEN Frame("static", clock)
                  ELSE base_img
           p   == ShowImagePrefix(display, hw, nh, fr, pc # "partial", k)
       IN \E cf \in CleanupFaults(p.c) :
            LET res == Cleanup(p.c, p.H, cf)
            IN /\ display' = res.c
               /\ hw' = res.H
               /\ nh' = p.n
               /\ lastCall' = Call("cleanup", "main", p.c, res.c, res.ops,
                                   res.raised, "none")
  /\ pc' = "final"
  /\ exitBy' = "signal"
  /\ LeaveMain
  /\ UNCHANGED <<dry_run, aux, gs, clock, png, ep>>
  /\ UNCHANGED <<monthStart, libVars>>

\* The signal delivered while show_image of the authentication message is
\* running: the handler cleans up the main controller only.
SignalInAuth ==
  /\ pc = "auth_show"
  /\ nh <= MaxHandles
  /\ \E k \in 0..3 :
       LET p == ShowImagePrefix(NewController, hw, nh, AuthFrame, TRUE, k)
       IN /\ aux' = [on |-> TRUE, epd |-> p.c.epd, init |-> p.c.init]
          /\ nh' = p.n
          /\ \E cf \in CleanupFaults(display) :
               LET res == Cleanup(display, p.H, cf)
               IN /\ display' = res.c
                  /\ hw' = res.H
                  /\ lastCall' = Call("cleanup", "main", display, res.c,
                                      res.ops, res.raised, "none")
  /\ pc' = "final"
  /\ exitBy' = "signal"
  /\ LeaveMain
  /\ UNCHANGED <<dry_run, gs, clock, png, ep>>
  /\ UNCHANGED <<monthStart, libVars>>

Next ==
  \/ Midnight
  \/ Start
  \/ GetService
  \/ AuthShow
  \/ AuthDrawFail
  \/ AuthRelease
  \/ DrySave
  \/ FirstFull
  \/ LoopTop
  \/ DayStaticRenderFail
  \/ DayStatic
  \/ Partial
  \/ Recover
  \/ Rebind
  \/ Final
  \/ Unwind
  \/ Signal
  \/ SignalInUpdate
  \/ SignalInAuth

Spec == Init /\ [][Next]_vars

\* ------------------------------------------------------------------------
\* The program e-paper2.py: its main() drives an EPaper object.

InitEP ==
  /\ pc = "e_start"
  /\ ctx = "initial"
  /\ stage = "cal"
  /\ dry_run \in BOOLEAN
  /\ display = NewController
  /\ aux = NoAux
  /\ hw = [h \in Handles |-> FreshHandle]
  /\ nh = 1
  /\ gs = [cal |-> FALSE, tasks |-> FALSE]
  /\ clock = 0
  /\ nowRead = clock
  /\ today = clock
  /\ base_img = NoFrame
  /\ img = NoFrame
  /\ png = NoFrame
  /\ page_index = 0
  /\ error_count = 0
  /\ exitBy = "none"
  /\ ep = NoEPaper
  /\ lastCall = NoCall
  /\ shown_static = NoFrame
  /\ monthStart \in 1..(MaxDay + 1)
  /\ LibIdle

mainOnly == <<ctx, stage, display, aux, gs, nowRead, error_count>>

\* The date whose day of month is 1: the run starts on day 0, some day
\* before the 1st of the next month, which is day monthStart (beyond the
\* days of the model when monthStart = MaxDay + 1).
FirstOfMonth(d) == d = monthStart

\* An exception that leaves main(): inside the try block (lines 541-564)
\* the finally clause runs, outside it the process just ends.
InTry == pc \in {"e_top", "e_day_full", "e_day_prepare", "e_cycle", "e_sleep"}
RaisePc == IF InTry THEN "e_final" ELSE "e_done"

\* e-paper2.py lines 517-524: static frame, Google client, first items.
EStart ==
  /\ pc = "e_start"
  /\ \E ok \in BOOLEAN :
       IF ok THEN /\ base_img' = Frame("static", clock)
                  /\ pc' = IF dry_run THEN "e_dry" ELSE "e_new"
                  /\ exitBy' = exitBy
             ELSE /\ base_img' = base_img
                  /\ pc' = "e_done"
                  /\ exitBy' = "raise"
  /\ lastCall' = NoCall
  /\ UNCHANGED <<mainOnly, dry_run, hw, nh, clock, today, img, png,
                 page_index, ep>>
  /\ UNCHANGED <<monthStart, libVars, shown_static>>

\* lines 526-531
EDry ==
  /\ pc = "e_dry"
  /\ img' = Frame("dynamic", base_img.day)
  /\ png' = img'
  /\ pc' = "e_done"
  /\ exitBy' = "return0"
  /\ lastCall' = NoCall
  /\ UNCHANGED <<mainOnly, dry_run, hw, nh, clock, today, base_img,
                 page_index, ep>>
  /\ UNCHANGED <<monthStart, libVars, shown_static>>

\* line 534, EPaper.__init__ (lines 459-463)
ENew ==
  /\ pc = "e_new"
  /\ \E ok \in BOOLEAN :
       IF ok /\ nh <= MaxHandles
       THEN /\ ep' = [epd |-> nh, ready |-> FALSE]
            /\ hw' = [hw EXCEPT ![nh] = ApplyOp(hw[nh], "EPD", NoFrame)]
            /\ nh' = nh + 1
            /\ pc' = "e_full"
            /\ exitBy' = exitBy
       ELSE /\ UNCHANGED <<ep, hw, nh>>
            /\ pc' = "e_done"
            /\ exitBy' = "raise"
  /\ lastCall' = NoCall
  /\ UNCHANGED <<mainOnly, dry_run, clock, today, base_img, img, png,
                 page_index>>
  /\ UNCHANGED <<monthStart, libVars, shown_static>>

\* The effect of one EPaper method call made by main().
EPCall(fn, res, okPc) ==
  /\ ep' = res.e
  /\ hw' = [hw EXCEPT ![ep.epd] = res.s.r]
  /\ lastCall' = Call(fn, "ep", ep, res.e, res.s.log, res.s.raised, "none")
  /\ IF res.s.raised
     THEN /\ pc' = RaisePc /\ exitBy' = "raise"
     ELSE /\ pc' = okPc /\ exitBy' = exitBy

\* lines 535 and 548: ep.full_update(base_img); on the new month the
\* static frame is rendered first (line 547).
EFull ==
  /\ pc \in {"e_full", "e_day_full"}
  /\ base_img' = IF pc = "e_day_full" THEN Frame("static", clock) ELSE base_img
  /\ \E F \in FullFaults :
       EPCall("full_update", EPFullUpdate(ep, Step0(hw[ep.epd]), base_img', F),
              IF pc = "e_full" THEN "e_prepare" ELSE "e_day_prepare")
  /\ UNCHANGED <<mainOnly, dry_run, nh, clock, today, img, png, page_index>>
  /\ UNCHANGED <<monthStart, libVars, shown_static>>

\* lines 536-539 and 549-550: ep.prepare_partial(base_img)
EPrepare ==
  /\ pc \in {"e_prepare", "e_day_prepare"}
  /\ \E F \in PrepareFaults :
       LET res == EPPreparePartial(ep, Step0(hw[ep.epd]), base_img, F)
       IN /\ EPCall("prepare_partial", res,
                    IF pc = "e_prepare" THEN "e_top" ELSE "e_cycle")
          /\ IF res.s.raised THEN UNCHANGED <<today, page_index>>
             ELSE IF pc = "e_prepare"
                  THEN /\ page_index' = 0 /\ today' = clock
                  ELSE /\ page_index' = page_index /\ today' = nowRead
  /\ UNCHANGED <<ctx, stage, display, aux, gs, nowRead, error_count, dry_run,
                 nh, clock, base_img, img, png>>
  /\ UNCHANGED <<monthStart, libVars, shown_static>>

\* lines 542-545: the static frame is rebuilt only on the 1st of a month.
ETop ==
  /\ pc = "e_top"
  /\ page_index < MaxPage
  /\ nowRead' = clock
  /\ pc' = IF clock # today /\ FirstOfMonth(clock) THEN "e_day_full" ELSE "e_cycle"
  /\ lastCall' = NoCall
  /\ UNCHANGED <<ctx, stage, display, aux, gs, error_count, dry_run, hw, nh,
                 clock, today, base_img, img, png, page_index, exitBy, ep>>
  /\ UNCHANGED <<monthStart, libVars, shown_static>>

\* lines 553-558: items, dynamic frame, ep.partial_update(frame)
ECycle ==
  /\ pc = "e_cycle"
  /\ img' = Frame("dynamic", base_img.day)
  /\ \E F \in PartialFaults :
       LET res == EPPartialUpdate(ep, Step0(hw[ep.epd]), img', F)
       IN /\ EPCall("partial_update", res, "e_sleep")
          /\ page_index' = IF res.s.raised THEN page_index ELSE page_index + 1
  /\ UNCHANGED <<mainOnly, dry_run, nh, clock, today, base_img, png>>
  /\ UNCHANGED <<monthStart, libVars, shown_static>>

\* lines 517-524 and 553-554 raising (fetch or render) inside the loop
ECycleRaise ==
  /\ pc = "e_cycle"
  /\ pc' = "e_final"
  /\ exitBy' = "raise"
  /\ lastCall' = NoCall
  /\ UNCHANGED <<mainOnly, dry_run, hw, nh, clock, today, base_img, img, png,
                 page_index, ep>>
  /\ UNCHANGED <<monthStart, libVars, shown_static>>

\* line 559
ESleep ==
  /\ pc = "e_sleep"
  /\ pc' = "e_top"
  /\ lastCall' = NoCall
  /\ UNCHANGED <<mainOnly, dry_run, hw, nh, clock, today, base_img, img, png,
                 page_index, exitBy, ep>>
  /\ UNCHANGED <<monthStart, libVars, shown_static>>

\* KeyboardInterrupt (lines 561-562) at any point after the EPaper object
\* exists.
EInterrupt ==
  /\ pc \in {"e_full", "e_prepare", "e_top", "e_day_full", "e_day_prepare",
              "e_cycle", "e_sleep"}
  /\ pc' = RaisePc
  /\ exitBy' = "interrupt"
  /\ lastCall' = NoCall
  /\ UNCHANGED <<mainOnly, dry_run, hw, nh, clock, today, base_img, img, png,
                 page_index, ep>>
  /\ UNCHANGED <<monthStart, libVars, shown_static>>

\* lines 563-564: finally ep.sleep()
EFinal ==
  /\ pc = "e_final"
  /\ \E F \in {{}, {"sleep"}} :
       LET res == EPSleep(ep, Step0(hw[ep.epd]), F)
       IN /\ ep' = res.e
          /\ hw' = [hw EXCEPT ![ep.epd] = res.s.r]
          /\ lastCall' = Call("ep_sleep", "ep", ep, res.e, res.s.log,
                              res.s.raised, "none")
  /\ pc' = "e_done"
  /\ UNCHANGED <<mainOnly, dry_run, nh, clock, today, base_img, img, png,
                 page_index, exitBy>>
  /\ UNCHANGED <<monthStart, libVars, shown_static>>

NextEP ==
  \/ Midnight
  \/ EStart
  \/ EDry
  \/ ENew
  \/ EFull
  \/ EPrepare
  \/ ETop
  \/ ECycle
  \/ ECycleRaise
  \/ ESleep
  \/ EInterrupt
  \/ EFinal

SpecEP == InitEP /\ [][NextEP]_vars

\* ------------------------------------------------------------------------
\* An EPaper object used by an arbitrary client: after construction
\* (e-paper2.py lines 459-463) its methods are called in any order, with any
\* frame, and what they raise is left to the client.

ClientFrames == {Frame("static", 0), Frame("dynamic", 0)}

InitClient ==
  /\ pc = "client"
  /\ ctx = "initial"
  /\ stage = "cal"
  /\ dry_run = FALSE
  /\ display = NewController
  /\ aux = NoAux
  /\ hw = [h \in Handles |->
            IF h = 1 THEN ApplyOp(FreshHandle, "EPD", NoFrame) ELSE FreshHandle]
  /\ nh = 2
  /\ gs = [cal |-> FALSE, tasks |-> FALSE]
  /\ clock = 0
  /\ nowRead = 0
  /\ today = 0
  /\ base_img = NoFrame
  /\ img = NoFrame
  /\ png = NoFrame
  /\ page_index = 0
  /\ error_count = 0
  /\ exitBy = "none"
  /\ ep = [epd |-> 1, ready |-> FALSE]
  /\ lastCall = NoCall
  /\ shown_static = NoFrame
  /\ monthStart = 1
  /\ LibIdle

ClientCall(fn, res, fr) ==
  /\ ep' = res.e
  /\ hw' = [hw EXCEPT ![ep.epd] = res.s.r]
  /\ img' = fr
  /\ lastCall' = Call(fn, "ep", ep, res.e, res.s.log, res.s.raised, "none")
  /\ UNCHANGED <<mainOnly, pc, dry_run, nh, clock, today, base_img, png,
                 page_index, exitBy>>

ClientFullUpdate ==
  /\ pc = "client"
  /\ \E fr \in ClientFrames, F \in FullFaults :
       ClientCall("full_update", EPFullUpdate(ep, Step0(hw[ep.epd]), fr, F), fr)
  /\ UNCHANGED <<monthStart, libVars, shown_static>>

ClientPreparePartial ==
  /\ pc = "client"
  /\ \E fr \in ClientFrames, F \in PrepareFaults :
       ClientCall("prepare_partial",
                  EPPreparePartial(ep, Step0(hw[ep.epd]), fr, F), fr)
  /\ UNCHANGED <<monthStart, libVars, shown_static>>

ClientPartialUpdate ==
  /\ pc = "client"
  /\ \E fr \in ClientFrames, F \in PartialFaults :
       ClientCall("partial_update",
                  EPPartialUpdate(ep, Step0(hw[ep.epd]), fr, F), fr)
  /\ UNCHANGED <<monthStart, libVars, shown_static>>

ClientSleep ==
  /\ pc = "client"
  /\ \E F \in {{}, {"sleep"}} :
       ClientCall("ep_sleep", EPSleep(ep, Step0(hw[ep.epd]), F), img)
  /\ UNCHANGED <<monthStart, libVars, shown_static>>

NextClient ==
  \/ ClientFullUpdate
  \/ ClientPreparePartial
  \/ ClientPartialUpdate
  \/ ClientSleep

SpecClient == InitClient /\ [][NextClient]_vars

\* ------------------------------------------------------------------------
\* A DisplayController used by an arbitrary client: after construction
\* (display_controller.py lines 14-17) show_image, sleep and cleanup are
\* called in any order, and what they raise is left to the client.

InitCtl ==
  /\ pc = "ctl"
  /\ ctx = "initial"
  /\ stage = "cal"
  /\ dry_run = FALSE
  /\ display = NewController
  /\ aux = NoAux
  /\ hw = [h \in Handles |-> FreshHandle]
  /\ nh = 1
  /\ gs = [cal |-> FALSE, tasks |-> FALSE]
  /\ clock = 0
  /\ nowRead = 0
  /\ today = 0
  /\ base_img = NoFrame
  /\ img = NoFrame
  /\ png = NoFrame
  /\ page_index = 0
  /\ error_count = 0
  /\ exitBy = "none"
  /\ ep = NoEPaper
  /\ lastCall = NoCall
  /\ shown_static = NoFrame
  /\ monthStart = 1
  /\ LibIdle

CtlCall(fn, res, n, fr, acq) ==
  /\ display' = res.c
  /\ hw' = res.H
  /\ nh' = n
  /\ img' = fr
  /\ lastCall' = Call(fn, "client", display, res.c, res.ops, res.raised, acq)
  /\ UNCHANGED <<pc, ctx, stage, dry_run, aux, gs, clock, nowRead, today,
                 base_img, png, page_index, error_count, exitBy, ep>>

CtlShowImage ==
  /\ pc = "ctl"
  /\ \E full \in BOOLEAN, fr \in ClientFrames, f \in FailPoints(display, nh) :
       LET res == ShowImage(display, hw, nh, fr, full, f)
       IN CtlCall(IF full THEN "show_full" ELSE "show_partial", res, res.n,
                  fr, res.acq)
  /\ UNCHANGED <<monthStart, libVars, shown_static>>

CtlSleep ==
  /\ pc = "ctl"
  /\ \E fail \in SleepFaults(display) :
       CtlCall("sleep", ControllerSleep(display, hw, fail), nh, img, "none")
  /\ UNCHANGED <<monthStart, libVars, shown_static>>

CtlCleanup ==
  /\ pc = "ctl"
  /\ \E cf \in CleanupFaults(display) :
       CtlCall("cleanup", Cleanup(display, hw, cf), nh, img, "none")
  /\ UNCHANGED <<monthStart, libVars, shown_static>>

NextCtl ==
  \/ CtlShowImage
  \/ CtlSleep
  \/ CtlCleanup

SpecCtl == InitCtl /\ [][NextCtl]_vars

\* Every DisplayController of the repository: the ones main.py makes, and
\* one in the hands of an arbitrary client.
SpecControllers == (Init \/ InitCtl) /\ [][Next \/ NextCtl]_vars

\* A client of an EPaper object, or one of a DisplayController.
InitClients == InitClient \/ InitCtl
NextClients == NextClient \/ NextCtl
SpecClients == InitClients /\ [][NextClients]_vars

\* ------------------------------------------------------------------------
\* The library functions of the renderer (image_renderer.py), called on
\* their own.  The program itself is not running.

ProgIdle(p) ==
  /\ pc = p
  /\ ctx = "initial"
  /\ stage = "cal"
  /\ dry_run = FALSE
  /\ display = NewController
  /\ aux = NoAux
  /\ hw = [h \in Handles |-> FreshHandle]
  /\ nh = 1
  /\ gs = [cal |-> FALSE, tasks |-> FALSE]
  /\ clock = 0
  /\ nowRead = 0
  /\ today = 0
  /\ base_img = NoFrame
  /\ img = NoFrame
  /\ png = NoFrame
  /\ page_index = 0
  /\ error_count = 0
  /\ exitBy = "none"
  /\ ep = NoEPaper
  /\ lastCall = NoCall
  /\ shown_static = NoFrame
  /\ monthStart = 1

\* Python's operators on the values the pagination uses: a // b and a % b
\* for b > 0 (floor division; the remainder has the sign of b), and the
\* slice s[a:b] for 0 <= a <= b, which stops at the end of the list.
PyFloorDiv(a, b) == a \div b
PyMod(a, b) == a % b
PySlice(s, a, b) ==
  LET hi == IF b < Len(s) THEN b ELSE Len(s)
  IN IF a >= hi THEN <<>> ELSE SubSeq(s, a + 1, hi)

\* Mutant of Paginate: the number of pages is rounded down.
Paginate_NoCeil(its, p, req) ==
  IF its # <<>>
  THEN LET total == IF Len(its) < p THEN 1 ELSE PyFloorDiv(Len(its), p)
           idx   == PyMod(req, total)
       IN [total_pages |-> total, page_index |-> idx,
           show_items |-> PySlice(its, idx * p, idx * p + p)]
  ELSE [total_pages |-> 1, page_index |-> req, show_items |-> <<>>]

\* Mutant of Paginate: the requested index is not wrapped.
Paginate_NoWrap(its, p, req) ==
  IF its # <<>>
  THEN LET total == PyFloorDiv(Len(its) + p - 1, p)
           idx   == IF req < 0 THEN 0 ELSE req
       IN [total_pages |-> total, page_index |-> idx,
           show_items |-> PySlice(its, idx * p, idx * p + p)]
  ELSE [total_pages |-> 1, page_index |-> req, show_items |-> <<>>]

\* Mutant of Paginate: the index is reduced modulo the number of items.
Paginate_ModItems(its, p, req) ==
  IF its # <<>>
  THEN LET total == PyFloorDiv(Len(its) + p - 1, p)
           idx   == PyMod(req, Len(its))
       IN [total_pages |-> total, page_index |-> idx,
           show_items |-> PySlice(its, idx * p, idx * p + p)]
  ELSE [total_pages |-> 1, page_index |-> req, show_items |-> <<>>]

\* render_dynamic lines 266-274 (e-paper2.py lines 430-436): the page of
\* the item list.  With an empty list page_index is left as it was passed.
Paginate(its, p, req) ==
  IF its # <<>>
  THEN LET total == PyFloorDiv(Len(its) + p - 1, p)
           idx   == PyMod(req, total)
       IN [total_pages |-> total, page_index |-> idx,
           show_items |-> PySlice(its, idx * p, idx * p + p)]
  ELSE [total_pages |-> 1, page_index |-> req, show_items |-> <<>>]

MSG_NO_EVENTS == "Sem Eventos"
MSG_FREE_DAY  == "Dia livre"

\* Mutant of DrawEvents: the page count is shown whenever there are items.
DrawEvents_AlwaysCount(shown, idx, total, room) ==
  IF shown = <<>>
  THEN [title |-> MSG_NO_EVENTS, count |-> <<>>, free_day |-> TRUE,
        drawn |-> <<>>]
  ELSE [title |-> "Eventos", count |-> <<idx + 1, total>>,
        free_day |-> FALSE, drawn |-> PySlice(shown, 0, room)]

\* _draw_events lines 170-228 with the items of the page: the title bar
\* ("Eventos (p/N)" is title "Eventos" with count <<p, N>>), the free day
\* message, and the items drawn; the loop stops after the item that uses
\* up the room of the panel, room >= 1 items.
DrawEvents(shown, idx, total, room) ==
  IF shown = <<>>
  THEN [title |-> MSG_NO_EVENTS, count |-> <<>>, free_day |-> TRUE,
        drawn |-> <<>>]
  ELSE [title |-> "Eventos",
        count |-> IF total > 1 THEN <<idx + 1, total>> ELSE <<>>,
        free_day |-> FALSE, drawn |-> PySlice(shown, 0, room)]

\* What render_dynamic computes and draws for an item list (lines 264-296).
RenderDynamic(its, p, req, room) ==
  LET pg == Paginate(its, p, req)
      ev == DrawEvents(pg.show_items, pg.page_index, pg.total_pages, room)
  IN [total_pages |-> pg.total_pages, page_index |-> pg.page_index,
      show_items |-> pg.show_items, title |-> ev.title, count |-> ev.count,
      free_day |-> ev.free_day, drawn |-> ev.drawn]

\* The inputs of the pagination: item lists of up to MaxItems items (the
\* items are told apart by their position), page sizes 1..MaxPerPage and
\* requested indices -MaxReq..MaxReq.
ItemLists == {[i \in 1..n |-> i] : n \in 0..MaxItems}

InitRender ==
  /\ ProgIdle("render")
  /\ items \in ItemLists
  /\ per_page \in 1..MaxPerPage
  /\ req_index \in (-MaxReq)..MaxReq
  /\ rendered = NoOut
  /\ text = <<>>
  /\ max_width = 0
  /\ result = <<>>
  /\ images = <<>>
  /\ base_ref = 0
  /\ frame_ref = 0
  /\ static_px = Blank
  /\ calendar = <<>>
  /\ sched = <<>>
  /\ panel = <<>>
  /\ shown_pages = <<>>

RenderCall ==
  /\ pc = "render"
  /\ rendered = NoOut
  /\ \E room \in 1..per_page :
       rendered' = RenderDynamic(items, per_page, req_index, room)
  /\ UNCHANGED <<progVars, monthStart, items, per_page, req_index, text,
                 max_width, result, images, base_ref, frame_ref, static_px,
                 calendar, sched, panel,
                 shown_pages>>

NextRender ==
  \/ RenderCall

SpecRender == InitRender /\ [][NextRender]_vars

\* ------------------------------------------------------------------------
\* Text truncation.  A string is the sequence of its glyphs; the width the
\* font gives it is the sum of the advances of its glyphs less the kerning
\* of each adjacent pair.

Glyphs == {".", "V", "W"}

Advance(g) == CASE g = "." -> 1 [] g = "V" -> 2 [] OTHER -> 3

\* The pair "V." is set tighter by one pixel.
Kerning(a, b) == IF a = "V" /\ b = "." THEN 1 ELSE 0

RECURSIVE TextWidth(_)
\* _text_size(draw, text, font)[0], lines 52-60
TextWidth(s) ==
  IF s = <<>> THEN 0
  ELSE IF Len(s) = 1 THEN Advance(s[1])
  ELSE TextWidth(SubSeq(s, 1, Len(s) - 1)) + Advance(s[Len(s)])
         - Kerning(s[Len(s) - 1], s[Len(s)])

Ellipsis == <<".", ".", ".">>

\* Mutant of BinarySearch: a candidate that does not fit moves high below
\* mid.
BinarySearch_Undershoot(t, mw, low, high) ==
  LET RECURSIVE Loop(_, _)
      Loop(lo, hi) ==
        IF lo < hi
        THEN LET mid == PyFloorDiv(lo + hi, 2)
                 candidate == PySlice(t, 0, mid) \o Ellipsis
             IN IF TextWidth(candidate) <= mw
                THEN Loop(mid + 1, hi)
                ELSE Loop(lo, mid - 1)
        ELSE lo
  IN Loop(low, high)

\* The while loop of _truncate_text, lines 81-87: the value of low when
\* the loop ends.
BinarySearch(t, mw, low, high) ==
  LET RECURSIVE Loop(_, _)
      Loop(lo, hi) ==
        IF lo < hi
        THEN LET mid == PyFloorDiv(lo + hi, 2)
                 candidate == PySlice(t, 0, mid) \o Ellipsis
             IN IF TextWidth(candidate) <= mw
                THEN Loop(mid + 1, hi)
                ELSE Loop(lo, mid)
        ELSE lo
  IN Loop(low, high)

\* Mutant of TruncateText: the prefix kept has length low, not low - 1.
TruncateText_NoBackstep(t, mw) ==
  IF TextWidth(t) <= mw
  THEN t
  ELSE LET low == BinarySearch(t, mw, 0, Len(t))
           res == PySlice(t, 0, low)
                    \o (IF Len(t) > 1 THEN Ellipsis ELSE <<>>)
       IN IF res = <<>> THEN Ellipsis ELSE res

\* Mutant of TruncateText: the early return for a text that fits is
\* missing.
TruncateText_NoEarlyReturn(t, mw) ==
  LET low == BinarySearch(t, mw, 0, Len(t))
      k == IF low - 1 > 0 THEN low - 1 ELSE 0
      res == PySlice(t, 0, k) \o (IF Len(t) > 1 THEN Ellipsis ELSE <<>>)
  IN IF res = <<>> THEN Ellipsis ELSE res

\* _truncate_text, lines 75-91 (trunc of e-paper2.py, lines 377-389)
TruncateText(t, mw) ==
  IF TextWidth(t) <= mw
  THEN t
  ELSE LET low == BinarySearch(t, mw, 0, Len(t))
           k == IF low - 1 > 0 THEN low - 1 ELSE 0
           res == PySlice(t, 0, k)
                    \o (IF Len(t) > 1 THEN Ellipsis ELSE <<>>)
       IN IF res = <<>> THEN Ellipsis ELSE res

RECURSIVE TextsOfLen(_)
TextsOfLen(n) ==
  IF n = 0 THEN {<<>>}
  ELSE {Append(t, g) : t \in TextsOfLen(n - 1), g \in Glyphs}

Texts == UNION {TextsOfLen(n) : n \in 0..MaxLen}

\* The value of result before the call has returned.
NoText == <<"unset">>

InitTrunc ==
  /\ ProgIdle("trunc")
  /\ text \in Texts
  /\ max_width \in (-1)..MaxWidth
  /\ result = NoText
  /\ items = <<>>
  /\ per_page = 1
  /\ req_index = 0
  /\ rendered = NoOut
  /\ images = <<>>
  /\ base_ref = 0
  /\ frame_ref = 0
  /\ static_px = Blank
  /\ calendar = <<>>
  /\ sched = <<>>
  /\ panel = <<>>
  /\ shown_pages = <<>>

\* _draw_events lines 209 and 215: self._truncate_text(draw, line1, width,
\* item_font)
TruncCall ==
  /\ pc = "trunc"
  /\ result = NoText
  /\ result' = TruncateText(text, max_width)
  /\ UNCHANGED <<progVars, monthStart, items, per_page, req_index, rendered,
                 text, max_width, images, base_ref, frame_ref, static_px,
                 calendar, sched, panel,
                 shown_pages>>

\* _truncate_text applied to the string it returned, with the same width.
TruncAgain ==
  /\ pc = "trunc"
  /\ result # NoText
  /\ text' = result
  /\ result' = TruncateText(result, max_width)
  /\ UNCHANGED <<progVars, monthStart, items, per_page, req_index, rendered,
                 max_width, images, base_ref, frame_ref, static_px,
                 calendar, sched, panel,
                 shown_pages>>

NextTrunc ==
  \/ TruncCall
  \/ TruncAgain

SpecTrunc == InitTrunc /\ [][NextTrunc]_vars

\* ------------------------------------------------------------------------
\* The month calendar.  A date is given by the weekday of the 1st of its
\* month (Python's weekday(): Monday 0 .. Sunday 6), the number of days of
\* the month and its day number.

MONDAY == 0
SUNDAY == 6

MonthLengths == 28..31

\* image_renderer.py line 109: pycal.Calendar(firstweekday=pycal.SUNDAY);
\* e-paper2.py line 326: pycal.Calendar(firstweekday=pycal.MONDAY)
FirstWeekday(prog) == IF prog = "image_renderer" THEN SUNDAY ELSE MONDAY

\* Calendar.itermonthdays: zeros for the days before the 1st in its week,
\* the day numbers, zeros for the days that complete the last week.
IterMonthDays(fw, day1, ndays) ==
  LET days_before == PyMod(day1 - fw, 7)
      days_after == PyMod(fw - day1 - ndays, 7)
  IN [i \in 1..days_before |-> 0] \o [i \in 1..ndays |-> i]
       \o [i \in 1..days_after |-> 0]

\* Mutant of MonthDaysCalendar: the days that complete the last week are
\* missing.
MonthDaysCalendar_NoTail(fw, day1, ndays) ==
  LET days == [i \in 1..PyMod(day1 - fw, 7) |-> 0] \o [i \in 1..ndays |-> i]
  IN [r \in 1..PyFloorDiv(Len(days) + 6, 7) |->
        PySlice(days, 7 * (r - 1), 7 * r)]

\* Calendar.monthdayscalendar: the days of itermonthdays in weeks of 7.
MonthDaysCalendar(fw, day1, ndays) ==
  LET days == IterMonthDays(fw, day1, ndays)
  IN [r \in 1..PyFloorDiv(Len(days) + 6, 7) |->
        PySlice(days, 7 * (r - 1), 7 * r)]

\* _draw_month_calendar lines 118-147 (draw_month_calendar of e-paper2.py,
\* lines 334-353): what is drawn in each cell of each row of month_grid:
\* nothing for 0, the day number otherwise, white on black for today_num.
DrawMonthCalendar(prog, day1, ndays, today_num) ==
  LET month_grid == MonthDaysCalendar(FirstWeekday(prog), day1, ndays)
  IN [r \in 1..Len(month_grid) |->
        [c \in 1..Len(month_grid[r]) |->
           LET day == month_grid[r][c]
           IN [day |-> day,
               style |-> IF day = 0 THEN "empty"
                         ELSE IF day = today_num THEN "today" ELSE "plain"]]]

InitGrid ==
  /\ ProgIdle("grid")
  /\ \E prog \in {"image_renderer", "e-paper2"}, day1 \in 0..6,
        ndays \in MonthLengths :
       \E day \in 1..ndays :
         calendar = [prog |-> prog, day1 |-> day1, ndays |-> ndays,
                     day |-> day, grid |-> <<>>]
  /\ items = <<>>
  /\ per_page = 1
  /\ req_index = 0
  /\ rendered = NoOut
  /\ text = <<>>
  /\ max_width = 0
  /\ result = <<>>
  /\ images = <<>>
  /\ base_ref = 0
  /\ frame_ref = 0
  /\ static_px = Blank
  /\ sched = <<>>
  /\ panel = <<>>
  /\ shown_pages = <<>>

\* render_static line 252 (e-paper2.py render_static line 421): the month
\* calendar of the current date is drawn.
GridDraw ==
  /\ pc = "grid"
  /\ calendar.grid = <<>>
  /\ calendar' = [calendar EXCEPT
                    !.grid = DrawMonthCalendar(calendar.prog, calendar.day1,
                                               calendar.ndays, calendar.day)]
  /\ UNCHANGED <<progVars, monthStart, items, per_page, req_index, rendered,
                 text, max_width, result, images, base_ref, frame_ref,
                 static_px, sched, panel, shown_pages>>

SpecGrid == InitGrid /\ [][GridDraw]_vars

\* ------------------------------------------------------------------------
\* The schedule items.  An item is its time label and its title; a time
\* label is "Dia todo", written -1, or an "HH:MM" string, written as the
\* number that orders it ("00:00" is 0); a title is the number that orders
\* it.

AllDay == -1

Item == [time : {AllDay} \cup (0..MaxTime), title : 1..MaxTitle]

\* sort_key of get_events_and_tasks, lines 286-288
SortKey(item) == IF item.time = AllDay THEN 0 ELSE item.time

\* google_service.py line 290 sorts on sort_key; e-paper2.py line 305 sorts
\* on the pair (key, title).
KeyLess(prog, a, b) ==
  IF prog = "google_service"
  THEN SortKey(a) < SortKey(b)
  ELSE \/ SortKey(a) < SortKey(b)
       \/ SortKey(a) = SortKey(b) /\ a.title < b.title

\* list.sort(key=...): a stable sort, items of equal key keep their order.
RECURSIVE ListSort(_, _)
ListSort(prog, its) ==
  IF its = <<>> THEN <<>>
  ELSE LET rest == ListSort(prog, SubSeq(its, 1, Len(its) - 1))
           x == its[Len(its)]
           \* x goes after the last item that is not greater than it
           n == Cardinality({i \in 1..Len(rest) : ~KeyLess(prog, x, rest[i])})
       IN SubSeq(rest, 1, n) \o <<x>> \o SubSeq(rest, n + 1, Len(rest))

\* get_events_and_tasks lines 283-293 (fetch_today_items lines 304-307):
\* events + tasks sorted, cut to MAX_EVENTS items.
GetEventsAndTasks(prog, fetched, max_events) ==
  PySlice(ListSort(prog, fetched), 0, max_events)

RECURSIVE ItemLists2(_)
ItemLists2(n) ==
  IF n = 0 THEN {<<>>}
  ELSE {Append(l, it) : l \in ItemLists2(n - 1), it \in Item}


InitSched ==
  /\ ProgIdle("sched")
  /\ \E prog \in {"google_service", "e-paper2"},
        fetched \in UNION {ItemLists2(n) : n \in 0..MaxFetched},
        max_events \in 1..MaxFetched :
       sched = [prog |-> prog, fetched |-> fetched, max_events |-> max_events,
                called |-> FALSE, returned |-> <<>>]
  /\ items = <<>>
  /\ per_page = 1
  /\ req_index = 0
  /\ rendered = NoOut
  /\ text = <<>>
  /\ max_width = 0
  /\ result = <<>>
  /\ images = <<>>
  /\ base_ref = 0
  /\ frame_ref = 0
  /\ static_px = Blank
  /\ calendar = <<>>
  /\ panel = <<>>
  /\ shown_pages = <<>>

\* render_dynamic line 264: items = google_service.get_events_and_tasks()
SchedFetch ==
  /\ pc = "sched"
  /\ ~sched.called
  /\ sched' = [sched EXCEPT
                 !.called = TRUE,
                 !.returned = GetEventsAndTasks(sched.prog, sched.fetched,
                                                sched.max_events)]
  /\ UNCHANGED <<progVars, monthStart, items, per_page, req_index, rendered,
                 text, max_width, result, images, base_ref, frame_ref,
                 static_px, calendar, panel, shown_pages>>

SpecSched == InitSched /\ [][SchedFetch]_vars

\* ------------------------------------------------------------------------
\* Images as objects.  `images` holds the pixels of every Image object by
\* its reference (its position); a drawing call changes the pixels of the
\* object it draws on.

\* render_static lines 229-257: a new white image with the panel borders
\* and the month calendar of the current date drawn on it.
RenderStatic(heap, day) ==
  [heap |-> Append(heap, [Blank EXCEPT !.cal = day]), ref |-> Len(heap) + 1]

\* Image.copy(): a new object with the pixels of the one copied.
ImageCopy(heap, ref) == [heap |-> Append(heap, heap[ref]), ref |-> Len(heap) + 1]

\* The drawing of render_dynamic lines 289-296 on the object ref: the time
\* block, and the events panel cleared and drawn.
DrawDynamic(heap, ref, ev) ==
  [heap EXCEPT ![ref] = [@ EXCEPT !.time = "drawn", !.events = ev]]

\* Mutant of RenderDynamicFrame: the copy is missing, the drawing is made
\* on the image that was passed.
RenderDynamicFrame_InPlace(heap, base, ev) ==
  [heap |-> DrawDynamic(heap, base, ev), ref |-> base]

\* render_dynamic lines 276-302 as to the images: base_image.copy(), the
\* drawing on the copy, the copy returned.
RenderDynamicFrame(heap, base, ev) ==
  LET c == ImageCopy(heap, base)
  IN [heap |-> DrawDynamic(c.heap, c.ref, ev), ref |-> c.ref]

\* What the events panel shows for an item list and a page index.
EventsPanel(its, idx) ==
  LET r == RenderDynamic(its, 1, idx, 1)
  IN [title |-> r.title, count |-> r.count, drawn |-> r.drawn]

InitFrames ==
  /\ ProgIdle("frames")
  /\ LibIdle

\* main.py lines 68 and 91: base_img = renderer.render_static()
FramesRenderStatic ==
  /\ pc = "frames"
  /\ Len(images) < MaxImages
  /\ \E d \in Days :
       LET r == RenderStatic(images, d)
       IN /\ images' = r.heap
          /\ base_ref' = r.ref
          /\ static_px' = r.heap[r.ref]
  /\ UNCHANGED <<progVars, monthStart, items, per_page, req_index, rendered,
                 text, max_width, result, frame_ref, calendar, sched,
                 panel, shown_pages>>

\* main.py lines 69 and 97: img = renderer.render_dynamic(base_img, ...)
FramesRenderDynamic ==
  /\ pc = "frames"
  /\ base_ref # 0
  /\ Len(images) < MaxImages
  /\ \E n \in 0..2, idx \in 0..1 :
       LET r == RenderDynamicFrame(images, base_ref,
                                   EventsPanel([i \in 1..n |-> i], idx))
       IN /\ images' = r.heap
          /\ frame_ref' = r.ref
  /\ UNCHANGED <<progVars, monthStart, items, per_page, req_index, rendered,
                 text, max_width, result, base_ref, static_px, calendar,
                 sched, panel, shown_pages>>

NextFrames ==
  \/ FramesRenderStatic
  \/ FramesRenderDynamic

SpecFrames == InitFrames /\ [][NextFrames]_vars

\* A run of main.py, or a client of an EPaper object.
InitBoth == Init \/ InitClient
NextBoth == Next \/ NextClient
SpecBoth == InitBoth /\ [][NextBoth]_vars

\* ------------------------------------------------------------------------
\* The page counter of the main loop over the pagination of render_dynamic:
\* the cycles of main.py lines 84-106 as to page_index, with an item list
\* that does not change.

InitPager ==
  /\ ProgIdle("pager")
  /\ items \in ItemLists
  /\ per_page \in 1..MaxPerPage
  /\ req_index = 0
  /\ rendered = NoOut
  /\ text = <<>>
  /\ max_width = 0
  /\ result = <<>>
  /\ images = <<>>
  /\ base_ref = 0
  /\ frame_ref = 0
  /\ static_px = Blank
  /\ calendar = <<>>
  /\ sched = <<>>
  /\ panel = <<>>
  /\ shown_pages = <<>>

\* main.py lines 96-101: render_dynamic with page_index, the partial
\* update; page_index += 1 when neither raised.
PagerCycle ==
  /\ pc = "pager"
  /\ req_index < MaxReq
  /\ \E room \in 1..per_page, ok \in BOOLEAN :
       LET r == RenderDynamic(items, per_page, req_index, room)
       IN /\ rendered' = r
          /\ req_index' = IF ok THEN req_index + 1 ELSE req_index
          /\ shown_pages' = IF ok THEN Append(shown_pages, r.show_items)
                            ELSE shown_pages
  /\ UNCHANGED <<progVars, monthStart, items, per_page, text, max_width,
                 result, images, base_ref, frame_ref, static_px, calendar,
                 sched, panel>>

\* main.py lines 89-94: the date has changed, page_index = 0.
PagerRollover ==
  /\ pc = "pager"
  /\ req_index > 0
  /\ req_index' = 0
  /\ shown_pages' = <<>>
  /\ UNCHANGED <<progVars, monthStart, items, per_page, rendered, text,
                 max_width, result, images, base_ref, frame_ref, static_px,
                 calendar, sched, panel>>

\* ------------------------------------------------------------------------
\* The item loop of _draw_events (image_renderer.py lines 183, 205-227) in
\* the panel render_dynamic gives it (lines 284-296).  An item of the page
\* is [id, loc]: loc says whether it has a location line.

FONT_SIZE_SUBTITLE == 11   \* config.py line 87
FONT_SIZE_REGULAR  == 9    \* config.py line 88
FONT_SIZE_SMALL    == 9    \* config.py line 89
LINE_SPACING       == 2    \* config.py line 45

\* Line 227: the last cursor position at which the loop goes on.
CursorLimit(y, height) == y + height - FONT_SIZE_REGULAR

\* Lines 207-223: the cursor after an item drawn at current_y.
CursorAfter(current_y, it) ==
  LET c1 == current_y + FONT_SIZE_REGULAR + 1
      c2 == IF it.loc THEN c1 + FONT_SIZE_SMALL + LINE_SPACING
            ELSE c1 + LINE_SPACING
  IN c2 + 2

\* Lines 205-227: the items from index i on, the cursor at current_y; each
\* item is drawn, then the cursor is advanced and tested.
RECURSIVE DrawItemLoop(_, _, _, _, _)
DrawItemLoop(page, i, current_y, limit, out) ==
  IF i > Len(page) THEN out
  ELSE LET drawn == Append(out, [item |-> page[i], at |-> current_y])
           next_y == CursorAfter(current_y, page[i])
       IN IF next_y > limit THEN drawn
          ELSE DrawItemLoop(page, i + 1, next_y, limit, drawn)

\* _draw_events for a non-empty page: line 183 sets the cursor under the
\* title bar; an empty page returns at line 202 before the loop.
DrawEventItems(y, height, page) ==
  IF page = <<>> THEN <<>>
  ELSE DrawItemLoop(page, 1, y + FONT_SIZE_SUBTITLE + 8,
                    CursorLimit(y, height), <<>>)

RECURSIVE PagesOfLen(_)
PagesOfLen(n) ==
  IF n = 0 THEN {<<>>}
  ELSE {Append(p, [id |-> n, loc |-> l]) : p \in PagesOfLen(n - 1), l \in BOOLEAN}

\* The panel of render_dynamic lines 284-286, 295: y = left_y + 2 and
\* height = left_h - 6, with left_y = MARGIN, left_h = EPD_HEIGHT - 2 MARGIN.
InitPanel ==
  /\ ProgIdle("panel")
  /\ \E epd_height \in 0..MaxEpdHeight, margin \in 0..MaxMargin,
        page \in UNION {PagesOfLen(n) : n \in 0..MaxPerPage} :
       panel = [y |-> margin + 2,
                height |-> epd_height - margin * 2 - 6,
                page |-> page, called |-> FALSE, drawn |-> <<>>]
  /\ items = <<>>
  /\ per_page = 1
  /\ req_index = 0
  /\ rendered = NoOut
  /\ text = <<>>
  /\ max_width = 0
  /\ result = <<>>
  /\ images = <<>>
  /\ base_ref = 0
  /\ frame_ref = 0
  /\ static_px = Blank
  /\ calendar = <<>>
  /\ sched = <<>>
  /\ shown_pages = <<>>

\* render_dynamic lines 295-296: self._draw_events(draw, ...)
PanelDraw ==
  /\ pc = "panel"
  /\ ~panel.called
  /\ panel' = [panel EXCEPT
                 !.called = TRUE,
                 !.drawn = DrawEventItems(panel.y, panel.height, panel.page)]
  /\ UNCHANGED <<progVars, monthStart, items, per_page, req_index, rendered,
                 text, max_width, result, images, base_ref, frame_ref,
                 static_px, calendar, sched, shown_pages>>

SpecPanel == InitPanel /\ [][PanelDraw]_vars

\* A run of main.py, or the page counter over the pagination.
SpecPaging ==
  (Init \/ InitPager) /\ [][Next \/ PagerCycle \/ PagerRollover]_vars

\* A run of main.py or a run of e-paper2.py.
SpecPrograms == (Init \/ InitEP) /\ [][Next \/ NextEP]_vars

\* ------------------------------------------------------------------------
\* Properties

AllOk(ops)     == \A i \in 1..Len(ops) : ops[i].ok
AnyFailed(ops) == \E i \in 1..Len(ops) : ~ops[i].ok
Issued(ops, o) == \E i \in 1..Len(ops) : ops[i].op = o
Before(ops, a, b) ==
  \E i, j \in 1..Len(ops) :
    i < j /\ ops[i].op = a /\ ops[i].ok /\ ops[j].op = b /\ ops[j].ok
LiveHandles == {h \in Handles : hw[h].st = "live"}

\* C1: a partial push (displayPartial) is issued on a handle only after a
\* full update has completed on that handle, in every run of the main loop,
\* also on the handle acquired after the failure recovery.
C1_PartialPushOnlyAfterFull ==
  \A i \in 1..Len(lastCall.ops) :
    lastCall.ops[i].op = "displayPartial" => hw[lastCall.ops[i].h].full

\* C2: cleanup() called while a handle is held, from any state (also the
\* state a failed update leaves), issues sleep and then module_exit on that
\* handle before it drops it.  Stated for the calls in which no driver
\* operation raises.
C2_CleanupShutsDownHeldHandle ==
  (lastCall.fn = "cleanup" /\ lastCall.pre.epd # None /\ AllOk(lastCall.ops))
    => /\ Len(lastCall.ops) = 2
       /\ lastCall.ops[1] = Op("sleep", lastCall.pre.epd, TRUE)
       /\ lastCall.ops[2] = Op("module_exit", lastCall.pre.epd, TRUE)
       /\ hw[lastCall.pre.epd].st = "gone"

\* C3: in the recovery of the main loop the handle the controller held has
\* received module_exit when cleanup() returns, before the new controller
\* can construct a handle.  Stated for the cleanups in which no driver
\* operation raises.
C3_RecoveryShutsDownPrevious ==
  (pc = "rebind" /\ lastCall.fn = "cleanup" /\ lastCall.pre.epd # None
     /\ AllOk(lastCall.ops))
    => \E i \in 1..Len(lastCall.ops) :
         lastCall.ops[i] = Op("module_exit", lastCall.pre.epd, TRUE)

\* C4: at most one live handle exists at any moment, and driver operations
\* are issued only through the controller of the main loop.
C4_SingleHandleSingleOwner ==
  /\ Cardinality(LiveHandles) <= 1
  /\ lastCall.ops # <<>> => lastCall.ctl = "main"

\* C5: after a completed full update, a partial update without an explicit
\* prepare step in which no driver operation raises succeeds: the hardware
\* was switched to partial mode and the incoming frame registered as the
\* baseline before the frame was pushed, and the controller is left
\* prepared for the next partial update.
PartialPushed(h) ==
  /\ ~lastCall.raised
  /\ Before(lastCall.ops, "init_part", "displayPartial")
  /\ Before(lastCall.ops, "displayPartBaseImage", "displayPartial")
  /\ hw[h].st = "live"
  /\ hw[h].mode = "PART"
  /\ hw[h].base = img

C5_PartialAfterFullAutoPrepares ==
  /\ (lastCall.fn = "show_partial" /\ lastCall.pre.epd # None
        /\ hw[lastCall.pre.epd].full /\ AllOk(lastCall.ops))
       => /\ PartialPushed(lastCall.pre.epd)
          /\ lastCall.post = [epd |-> lastCall.pre.epd, init |-> TRUE]
  /\ (lastCall.fn = "partial_update" /\ ~lastCall.pre.ready
        /\ hw[lastCall.pre.epd].full /\ AllOk(lastCall.ops))
       => /\ PartialPushed(lastCall.pre.epd)
          /\ lastCall.post = [epd |-> lastCall.pre.epd, ready |-> TRUE]

C5_Witness ==
  /\ lastCall.fn = "show_partial"
  /\ lastCall.ctl = "main"
  /\ lastCall.pre.epd # None
  /\ hw[lastCall.pre.epd].full
  /\ ~lastCall.raised
  /\ pc = "loop_top"

C7_CleanupIdempotent ==
  lastCall.fn = "cleanup"
    => /\ ~lastCall.raised
       /\ lastCall.post = NewController
       /\ lastCall.pre = NewController => lastCall.ops = <<>>
       /\ lastCall.ctl = "main" /\ Running => display = NewController

C7_Witness ==
  /\ lastCall.fn = "cleanup"
  /\ lastCall.ctl = "main"
  /\ lastCall.pre = NewController
  /\ pc = "done"
  /\ exitBy = "signal"
  /\ \E h \in Handles : hw[h].st = "gone"

\* C8: when a signal is delivered after the controller was created, the
\* handler's cleanup() leaves the handle the controller held asleep and
\* shut down before the process exits.  Stated for the cleanups in which
\* no driver operation raises.
C8_SignalLeavesHardwareAsleep ==
  (pc = "final" /\ exitBy = "signal" /\ lastCall.fn = "cleanup"
     /\ lastCall.pre.epd # None /\ AllOk(lastCall.ops))
    => /\ lastCall.ops # <<>>
       /\ lastCall.ops[1] = Op("sleep", lastCall.pre.epd, TRUE)
       /\ lastCall.ops[Len(lastCall.ops)]
            = Op("module_exit", lastCall.pre.epd, TRUE)

\* C9: in dry-run mode no handle is constructed and no driver operation is
\* issued between process start and exit.
C9_DryRunTouchesNoHardware ==
  dry_run => /\ \A h \in Handles : hw[h].st = "unbuilt"
             /\ lastCall.ops = <<>>

\* C10: a full update acquires a handle exactly when the controller holds
\* none; when the acquisition fails the call raises, issues no driver
\* operation and leaves the controller uninitialised without a handle, so
\* that the next call attempts the acquisition again.
C10_LazyAcquisition ==
  lastCall.fn = "show_full"
    => /\ lastCall.pre.epd # None
            => (lastCall.acq = "none" /\ lastCall.post.epd = lastCall.pre.epd)
       /\ lastCall.pre.epd = None => lastCall.acq \in {"ok", "fail"}
       /\ lastCall.acq = "ok"
            => (lastCall.post.epd # None /\ hw[lastCall.post.epd].st = "live")
       /\ lastCall.acq = "fail"
            => /\ lastCall.raised
               /\ lastCall.ops = <<>>
               /\ lastCall.post = NewController
               /\ \A h \in Handles : h >= nh => hw[h].st = "unbuilt"

C10_Witness ==
  /\ lastCall.fn = "show_full"
  /\ lastCall.ctl = "main"
  /\ lastCall.acq = "fail"
  /\ error_count = 2

\* C11: in every cycle of the main loop the dynamic frame is rendered and
\* pushed only when the date read at the top of the cycle is the date of
\* the static frame; and the handling of a date change ends with a static
\* frame rendered for the new date, shown by a full update, and the page
\* index at 0.
DynamicStage ==
  \/ ctx = "loop" /\ pc \in {"g_service", "auth_show", "auth_release", "partial"}
  \/ pc = "e_cycle"

RolloverDone ==
  \/ pc = "day_static" /\ pc' = "g_service"
  \/ pc = "e_day_prepare" /\ pc' = "e_cycle"

C11_RolloverRebuildsStatic ==
  [][ /\ DynamicStage' => nowRead' = today'
      /\ RolloverDone =>
           /\ page_index' = 0
           /\ base_img' = Frame("static", clock)
           /\ \E h \in Handles : /\ hw'[h].st = "live"
                                  /\ hw'[h].full
                                  /\ hw'[h].shown = base_img' ]_vars

\* C12: a partial update in which the only driver operations that raise
\* are the ones the driver lacks (the base image registration, the partial
\* display) does not raise: the registration is skipped and the frame is
\* on the display, pushed with the plain display operation when the
\* partial display operation is the one that is missing.
AbsentOps == {"displayPartBaseImage", "displayPartial"}

OnlyAbsentFail(ops) ==
  /\ AnyFailed(ops)
  /\ \A i \in 1..Len(ops) : ~ops[i].ok => ops[i].op \in AbsentOps

C12_PartialWithoutOptionalOps ==
  (lastCall.fn \in {"show_partial", "partial_update"}
     /\ OnlyAbsentFail(lastCall.ops))
    => /\ ~lastCall.raised
       /\ hw[lastCall.post.epd].shown = img
       /\ lastCall.ops[Len(lastCall.ops)].ok
       /\ Issued(lastCall.ops, "display")
            = (\E i \in 1..Len(lastCall.ops) :
                 lastCall.ops[i] = Op("displayPartial", lastCall.post.epd, FALSE))

\* C13: sleep() does not raise, neither without a handle nor when the
\* driver's sleep raises, and leaves the controller as it was (same handle,
\* same initialised / prepared status); it issues at most the driver's
\* sleep, and only on the handle held.
C13_SleepNeverRaises ==
  lastCall.fn \in {"sleep", "ep_sleep"}
    => /\ ~lastCall.raised
       /\ lastCall.post = lastCall.pre
       /\ lastCall.fn = "sleep" => display = lastCall.pre
       /\ lastCall.fn = "ep_sleep" => ep = lastCall.pre
       /\ \A i \in 1..Len(lastCall.ops) :
            lastCall.ops[i].op = "sleep" /\ lastCall.ops[i].h = lastCall.pre.epd
       /\ lastCall.pre.epd = None => lastCall.ops = <<>>

C13_Witness ==
  /\ lastCall.fn = "sleep"
  /\ lastCall.pre.epd # None
  /\ lastCall.pre.init
  /\ lastCall.ops = <<Op("sleep", lastCall.pre.epd, FALSE)>>

\* C14: for every item list, page size >= 1 and requested index, the
\* render has total_pages = max(1, ceil(len(items) / page_size)), a
\* resolved index that is the requested index modulo total_pages
\* (0 <= index < total_pages), and as page the items from position
\* index * page_size up to, not including, index * page_size + page_size.
CeilDiv(n, p) == CHOOSE t \in 0..n : t * p >= n /\ (t - 1) * p < n

C14_Pagination ==
  rendered # NoOut
    => LET n     == Len(items)
           total == rendered.total_pages
           r     == rendered.page_index
           first == r * per_page
           last  == IF first + per_page < n THEN first + per_page ELSE n
       IN /\ total = (IF n = 0 THEN 1 ELSE CeilDiv(n, per_page))
          /\ 0 <= r /\ r < total
          /\ \E q \in (-(MaxReq + 1))..(MaxReq + 1) : req_index = q * total + r
          /\ Len(rendered.show_items) = last - first
          /\ \A i \in 1..(last - first) :
               rendered.show_items[i] = items[first + i]

\* C15: for an item list of length n and page size p the pages with the
\* indices 0..total_pages-1 have at most p items each, their lengths sum
\* to n, and concatenated in index order they are the item list.
PageOf(i) == Paginate(items, per_page, i).show_items

RECURSIVE PagesFrom(_, _)
PagesFrom(i, total) ==
  IF i >= total THEN <<>> ELSE PageOf(i) \o PagesFrom(i + 1, total)

RECURSIVE LengthsFrom(_, _)
LengthsFrom(i, total) ==
  IF i >= total THEN 0 ELSE Len(PageOf(i)) + LengthsFrom(i + 1, total)

C15_PagesPartitionItems ==
  rendered # NoOut
    => /\ \A i \in 0..(rendered.total_pages - 1) : Len(PageOf(i)) <= per_page
       /\ LengthsFrom(0, rendered.total_pages) = Len(items)
       /\ PagesFrom(0, rendered.total_pages) = items
       /\ rendered.show_items = PageOf(rendered.page_index)

C15_Witness ==
  /\ rendered # NoOut
  /\ Len(items) = 7
  /\ per_page = 3
  /\ rendered.total_pages = 3
  /\ rendered.show_items = <<7>>

\* C16: the render shows the "no events" title and the free day message,
\* draws no item and shows no page count exactly when the item list is
\* empty; for a non-empty list the page of any requested index has items,
\* the title is the events title, and at least one item is drawn.
EmptyPresentation ==
  /\ rendered.title = MSG_NO_EVENTS
  /\ rendered.free_day
  /\ rendered.drawn = <<>>
  /\ rendered.count = <<>>

C16_EmptyPresentationOnlyForEmptyList ==
  rendered # NoOut
    => /\ EmptyPresentation <=> items = <<>>
       /\ items # <<>>
            => /\ rendered.show_items # <<>>
               /\ rendered.title # MSG_NO_EVENTS
               /\ ~rendered.free_day
               /\ rendered.drawn # <<>>

C16_Witness ==
  /\ rendered # NoOut
  /\ Len(items) = 4
  /\ per_page = 3
  /\ req_index = 5
  /\ rendered.show_items = <<4>>
  /\ rendered.drawn = <<4>>

\* C17: for a non-empty item list the title is "Eventos (p/N)", with
\* N = total_pages and p = resolved index + 1 (1 <= p <= N), exactly when
\* total_pages > 1, and plain "Eventos" exactly when total_pages = 1.
C17_TitleShowsPageCount ==
  (rendered # NoOut /\ items # <<>>)
    => LET N == CeilDiv(Len(items), per_page)
           p == (req_index % N) + 1
       IN /\ rendered.title = "Eventos"
          /\ N > 1 => rendered.count = <<p, N>>
          /\ N = 1 => rendered.count = <<>>
          /\ 1 <= p /\ p <= N
          /\ N = rendered.total_pages

C17_Witness ==
  /\ rendered # NoOut
  /\ Len(items) = 7
  /\ req_index = 4
  /\ rendered.title = "Eventos"
  /\ rendered.count = <<2, 3>>

\* C18: render_dynamic does not change the static frame it is given:
\* after any number of dynamic renders the pixels of the static frame are
\* the ones render_static returned (calendar only), and the dynamic frame
\* returned is an object other than the static frame.
C18_StaticFrameNotMutated ==
  base_ref # 0
    => /\ images[base_ref] = static_px
       /\ images[base_ref].time = "blank"
       /\ images[base_ref].events = "blank"
       /\ frame_ref # base_ref
       /\ frame_ref # 0 => images[frame_ref].time = "drawn"

C18_Witness ==
  /\ base_ref = 1
  /\ frame_ref = 3
  /\ images[2].events # images[3].events
  /\ images[3].cal = images[1].cal

Fits(s) == TextWidth(s) <= max_width

\* The lengths k >= 1 whose prefix with the ellipsis fits.
FittingPrefixes ==
  {k \in 1..Len(text) : Fits(PySlice(text, 0, k) \o Ellipsis)}

\* The width of prefix-with-ellipsis never decreases as the prefix grows,
\* and the text is no wider than the text with the ellipsis.
MonotoneMeasure ==
  /\ \A k \in 0..(Len(text) - 1) :
       TextWidth(PySlice(text, 0, k) \o Ellipsis)
         <= TextWidth(PySlice(text, 0, k + 1) \o Ellipsis)
  /\ TextWidth(text) <= TextWidth(text \o Ellipsis)

SetMax(S) == CHOOSE k \in S : \A j \in S : j <= k

\* C19: truncation returns the text unchanged when it fits; otherwise,
\* for a width measure that never decreases as the prefix grows, it
\* returns text[:k] + "..." for the largest k whose prefix with the
\* ellipsis fits, and the bare "..." when no non-empty prefix with the
\* ellipsis fits.
C19_TruncationLargestFittingPrefix ==
  result # NoText
    => IF Fits(text)
       THEN result = text
       ELSE MonotoneMeasure
              => IF FittingPrefixes # {}
                 THEN result = PySlice(text, 0, SetMax(FittingPrefixes))
                                 \o Ellipsis
                 ELSE result = Ellipsis

C19_Witness ==
  /\ result # NoText
  /\ ~Fits(text)
  /\ MonotoneMeasure
  /\ FittingPrefixes # {}
  /\ SetMax(FittingPrefixes) = 2
  /\ Len(text) = MaxLen
  /\ result = PySlice(text, 0, 2) \o Ellipsis

\* C20: for every text and every max width that is at least the width of
\* the bare ellipsis, the width of the string truncation returns does not
\* exceed the max width.
C20_TruncatedFits ==
  (result # NoText /\ max_width >= TextWidth(Ellipsis))
    => TextWidth(result) <= max_width

C20_Witness ==
  /\ result # NoText
  /\ max_width >= TextWidth(Ellipsis)
  /\ ~Fits(text)
  /\ result # Ellipsis
  /\ TextWidth(result) = max_width
  /\ ~Fits(PySlice(text, 0, Len(result) - 2) \o Ellipsis)

\* C21: truncation is idempotent: applied with the same max width to the
\* string it returned, it returns that string again.
C21_TruncationIdempotent ==
  [][result # NoText => result' = result]_vars

\* A text that was cut, given to the truncation a second time.
C21_Witness ==
  /\ result # NoText
  /\ text = result
  /\ Len(text) > MaxLen
  /\ PySlice(text, Len(text) - 3, Len(text)) = Ellipsis

\* C22: the month grid has Monday as its first column: the cell of day 1
\* is in the first row, in the column whose index is the number of days
\* from Monday to the weekday of the 1st.
C22_MondayFirstColumn ==
  calendar.grid # <<>> => calendar.grid[1][calendar.day1 + 1].day = 1

RECURSIVE FlattenRows(_)
FlattenRows(rows) ==
  IF rows = <<>> THEN <<>> ELSE Head(rows) \o FlattenRows(Tail(rows))

\* The cells of the grid in row-major order.
GridCells == FlattenRows(calendar.grid)

\* The number of empty cells before the cell of day 1.
GridOffset == (CHOOSE i \in 1..Len(GridCells) : GridCells[i].day = 1) - 1

\* C23: for every month the grid is rectangular and covers the month: it
\* has ceil((offset + N) / 7) rows, 4, 5 or 6 of them, each of 7 cells;
\* the day numbers 1..N are on consecutive cells in row-major order, each
\* once; every other cell is empty; exactly one cell, the one of the
\* current day number, is drawn as today.
C23_GridCoversMonth ==
  calendar.grid # <<>>
    => /\ Len(calendar.grid) = CeilDiv(GridOffset + calendar.ndays, 7)
       /\ Len(calendar.grid) \in {4, 5, 6}
       /\ \A r \in 1..Len(calendar.grid) : Len(calendar.grid[r]) = 7
       /\ \A i \in 1..Len(GridCells) :
            GridCells[i].day =
              IF GridOffset < i /\ i <= GridOffset + calendar.ndays
              THEN i - GridOffset ELSE 0
       /\ \A i \in 1..Len(GridCells) :
            /\ GridCells[i].style = "today" <=> GridCells[i].day = calendar.day
            /\ GridCells[i].style = "empty" <=> GridCells[i].day = 0
       /\ Cardinality({i \in 1..Len(GridCells) :
                         GridCells[i].style = "today"}) = 1

\* A 28-day month that fills four rows, and a 31-day month in six rows.
C23_Witness ==
  /\ calendar.grid # <<>>
  /\ calendar.prog = "image_renderer"
  /\ calendar.ndays = 31
  /\ Len(calendar.grid) = 6
  /\ calendar.grid[6][1].style = "today"

\* C24: the items handed to the renderer are ordered by the key ("00:00"
\* for the all-day label, the time label otherwise), and items of equal
\* key are ordered by title.
C24_ItemsSortedByKeyThenTitle ==
  sched.called
    => \A i \in 1..(Len(sched.returned) - 1) :
         LET a == sched.returned[i]
             b == sched.returned[i + 1]
         IN \/ SortKey(a) < SortKey(b)
            \/ SortKey(a) = SortKey(b) /\ a.title <= b.title

\* The hardware operations of a log (getbuffer only converts the image).
HwOpNames(ops) ==
  LET hwops == SelectSeq(ops, LAMBDA o : o.op # "getbuffer")
  IN [i \in 1..Len(hwops) |-> hwops[i].op]

\* The mode of the last init that succeeded before operation i of the last
\* call: the one in the call's log, or the mode the handle was left in.
ModeAtOp(i) ==
  LET ops == lastCall.ops
      inits == {j \in 1..(i - 1) :
                  ops[j].ok /\ ops[j].op \in {"init_full", "init_part"}}
  IN IF inits = {} THEN hw[ops[i].h].mode
     ELSE IF ops[CHOOSE j \in inits : \A k \in inits : k <= j].op = "init_part"
          THEN "PART" ELSE "FULL"

C26_FailedDayFullIsRepeated ==
  /\ (lastCall.fn = "show_full" /\ lastCall.ctl = "main" /\ lastCall.raised
        /\ ctx = "loop")
       => (today # nowRead /\ pc \in {"loop_top", "recover"})
  /\ (pc \in {"loop_top", "recover", "rebind"} /\ base_img # shown_static)
       => clock # today
  /\ (ctx = "loop" /\ pc \in {"g_service", "auth_show", "auth_release",
                                "partial"})
       => base_img = shown_static
  /\ (lastCall.fn = "show_partial" /\ lastCall.ctl = "main"
        /\ lastCall.ops # <<>>)
       => (img = Frame("dynamic", shown_static.day)
             /\ base_img = shown_static)

\* The full update of the static frame of day 1 has raised.
C26_Witness ==
  /\ lastCall.fn = "show_full"
  /\ lastCall.raised
  /\ Issued(lastCall.ops, "display")
  /\ pc = "loop_top"
  /\ base_img = Frame("static", 1)
  /\ shown_static = Frame("static", 0)
  /\ today = 0
  /\ clock = 1

\* A cycle of the main loop is under way.
InCycle ==
  /\ ctx = "loop"
  /\ pc \in {"day_static", "g_service", "auth_show", "auth_release", "partial"}

\* The step that ends a cycle without an exception.
CycleSucceeds ==
  /\ InCycle
  /\ pc = "partial"
  /\ pc' = "loop_top"
  /\ ~lastCall'.raised

\* The step that ends a cycle in the except clause.
CycleFails ==
  /\ InCycle
  /\ pc' \in {"loop_top", "recover"}
  /\ ~CycleSucceeds

\* C27: the failure counter of the main loop counts consecutive failed
\* cycles: a successful cycle sets it to 0, a failed cycle adds 1; the
\* display is torn down and created again exactly when it reaches
\* max_errors, and it is 0 after that; it is between 0 and max_errors - 1
\* when a cycle starts; and the loop is left only on an interrupt (the
\* re-creation does not fail).
C27_ErrorCounter ==
  [][ /\ CycleSucceeds => error_count' = 0
      /\ CycleFails
           => /\ error_count' = error_count + 1
              /\ pc' = "recover" <=> error_count' = max_errors
      /\ pc = "recover" => pc' \in {"rebind", "final"}
      /\ (pc = "rebind" /\ pc' = "loop_top")
           => (error_count' = 0 /\ display' = NewController)
      /\ pc' = "loop_top" => error_count' \in 0..(max_errors - 1)
      /\ ((InCycle \/ pc \in {"loop_top", "recover", "rebind"}) /\ pc' = "final")
           => exitBy' = "signal" ]_vars

\* The display was created again after five failed cycles in a row.
C27_Witness ==
  /\ pc = "loop_top"
  /\ lastCall.fn = "cleanup"
  /\ lastCall.ctl = "main"
  /\ display = NewController
  /\ error_count = 0
  /\ \E h \in Handles : hw[h].st = "gone"

\* The items of the pages j .. j + n - 1 of the history, one after the
\* other.
RECURSIVE ShownFrom(_, _, _)
ShownFrom(pages, j, n) ==
  IF n = 0 THEN <<>> ELSE pages[j] \o ShownFrom(pages, j + 1, n - 1)

HoldsWhenInitialised(c) == c.init => c.epd # None

C29_InitialisedHoldsOneHandle ==
  /\ HoldsWhenInitialised(display)
  /\ HoldsWhenInitialised(AuxCtl)
  /\ lastCall.ctl \in {"main", "aux", "client"}
       => /\ HoldsWhenInitialised(lastCall.pre)
          /\ HoldsWhenInitialised(lastCall.post)
          /\ lastCall.acq \in {"ok", "fail"}
               => (lastCall.pre.epd = None /\ ~lastCall.pre.init)
          /\ lastCall.acq = "ok" => lastCall.post.epd # None
          /\ (lastCall.pre.epd # None /\ lastCall.post.epd # None)
               => lastCall.post.epd = lastCall.pre.epd
  /\ \A h \in Handles :
       hw[h].st \notin {"unbuilt", "gone"} => h \in {display.epd, aux.epd}
  /\ (display.epd # None /\ aux.epd # None) => display.epd # aux.epd

\* A controller whose update failed is re-initialised by the next call,
\* which constructs nothing and keeps the handle.
C29_Witness ==
  /\ lastCall.fn \in {"show_full", "show_partial"}
  /\ lastCall.pre.epd # None
  /\ ~lastCall.pre.init
  /\ lastCall.post.init
  /\ lastCall.post.epd = lastCall.pre.epd
  /\ lastCall.acq = "none"

\* C30: the items drawn are a prefix of the page in page order; an item is
\* drawn only when the cursor before it is within the usable height of the
\* panel (panel top + height - item font size); and when items are left
\* out, the cursor after the last item drawn is beyond that height.
C30_ItemsDrawnWithinPanel ==
  panel.called
    => LET n     == Len(panel.drawn)
           limit == CursorLimit(panel.y, panel.height)
       IN /\ n <= Len(panel.page)
          /\ \A i \in 1..n : panel.drawn[i].item = panel.page[i]
          /\ \A i \in 1..n : panel.drawn[i].at <= limit
          /\ (0 < n /\ n < Len(panel.page))
               => CursorAfter(panel.drawn[n].at, panel.drawn[n].item) > limit

TypeOK ==
  /\ pc \in {"start", "g_service", "auth_show", "auth_release",
             "dry_save", "first_full", "loop_top", "day_static", "partial",
             "recover", "rebind", "final", "unwind", "done",
             "e_start", "e_dry", "e_new", "e_full", "e_prepare", "e_top",
             "e_day_full", "e_day_prepare", "e_cycle", "e_sleep", "e_final",
             "e_done", "client", "ctl", "render", "trunc", "frames", "grid", "sched",
                      "panel", "pager"}
  /\ display.epd \in 0..MaxHandles
  /\ nh \in 1..(MaxHandles + 1)
  /\ error_count \in 0..max_errors
  /\ page_index \in 0..MaxPage

====
